---- MODULE Spec2Model ----
(***************************************************************************)
(* Verification model of bbp-workflow.                                     *)
(*                                                                         *)
(* SpecActivity : the durable activity state machine of MetaTask.run       *)
(*                (sbo/task.py) with its completeness target               *)
(*                (sbo/target.py), the generator target                    *)
(*                (generation/target.py) and the knowledge-graph index.    *)
(* SpecSbatch   : the submission scope _run_sbatch (slurm.py).             *)
(* SpecSubmit   : the loop of _run_sbatch that reads the job id.           *)
(* SpecMonitor  : the monitor worker _sim_monitoring with its callers      *)
(*                (simulation/task.py, sbo/sim/task.py).                   *)
(* SpecMerge    : the per-index bookkeeping _merge of the monitor.         *)
(* SpecDynamicDeps : MetaTask.run and MultiVariantGenerator.run around     *)
(*                their yield of dynamic dependencies.                     *)
(* SpecCommand  : masking of secrets in logged and persisted commands      *)
(*                (slurm.py, generation/command.py).                       *)
(* SpecThrottle : SimCampaignThrottle.run (simulation/task.py).            *)
(* SpecHalt     : SimCampaignHalt.run next to the array tasks.             *)
(* SpecHetjob   : the script assembled by _sbatch (slurm.py).              *)
(* SpecAlloc    : _process_alloc_params (slurm.py).                        *)
(* SpecMask     : _mask on any text (generation/command.py).               *)
(* SpecSalloc   : the quoting of _build_salloc_command.                    *)
(* SpecRanges   : _indices_to_ranges and _sim_indices_to_list              *)
(*                (simulation/util.py).                                    *)
(* SpecCampaign : one attempt of SimCampaign.run.                          *)
(* SpecTracked  : _sim_monitoring of a tracked campaign next to its        *)
(*                tasks and the submission's process.                      *)
(* SpecLimit    : the concurrency limit of the array job at submission     *)
(*                and under SimCampaignThrottle.                           *)
(***************************************************************************)
EXTENDS Integers, FiniteSets, Sequences, TLC

\* ------------------------------------------------------------------ bounds
MaxActivities == 2
MaxInvocations == 3
MaxGenActivities == 2
MaxGenInvocations == 2
MaxLines == 2
MaxPolls == 3
MaxIdx == 2
MaxMergePolls == 2
MaxVariants == 2
MaxMvInvocations == 2
MaxSecretLen == 2
MaxJobs == 3
MaxHaltJobs == 2
MaxHaltTasks == 2
MaxComponents == 3
MaxWorkers == 2
MaxMaskLen == 4
MaxCmdLen == 4
MaxRangeLen == 4
MaxIndexVal == 5
MaxTrPolls == 3
MaxThrottles == 2

VARIABLES
    \* --- knowledge graph (durable store) and wrapped task
    store,            \* activity id -> [status, endedAtTime, generated, indexed]
    baseComplete,     \* the wrapped BaseTask's output exists
    \* --- the engine running one MetaTask, and the locals of MetaTask.run
    pc,               \* position of the engine / of MetaTask.run
    activity,         \* local `activity` (0 = None)
    do_pre_publish,   \* local `do_pre_publish`
    resource,         \* local `resource` (FALSE = None)
    invocations,      \* how many times the workflow was launched
    existsResult,     \* what BbpWorkflowTarget.exists() returned last
    existsSaw,        \* status of the activity that call looked up
    \* --- history of the current attempt and of the store
    transitions,      \* every persisted change of status, as <<from, to>>
    prePublishCount,  \* calls of pre_publish_resource in this attempt
    attemptDone,      \* this attempt persisted Done
    attemptFailed,    \* this attempt persisted Failed
    everDone,         \* activities that have been persisted as Done
    rerunOfDone,      \* activities run() was entered for after they were Done
    delegatedFailed,  \* the delegated execution of this attempt raised
    entryFound,       \* what this entry of run() found: absent / ended / open
    entryPre,         \* this entry of run() called pre_publish_resource
    \* --- generator task with its SBOTarget
    genStore,         \* generator activity id -> [status, indexed]
    genPc,
    genInvocations,
    genExists,        \* what SBOTarget.exists() returned last
    genSaw,           \* status of the activity that call looked up
    \* --- _run_sbatch
    sb,
    \* --- _run_sbatch: reading the submission channel for the job id
    rd,
    \* --- a campaign submission with its monitor worker (_sim_monitoring)
    mon,
    \* --- the monitor's per-index bookkeeping (_merge)
    mg,
    \* --- a MultiVariantGenerator with its scattered variant tasks
    mv,
    \* --- commands with secrets: what is sent, logged and persisted
    cm,
    \* --- SimCampaignThrottle
    thr,
    \* --- SimCampaignHalt and the jobs of the campaign
    halt,
    \* --- a helper function applied to an input
    fn,
    \* --- SimCampaign.run and the campaign's generation activity
    camp,
    \* --- the monitor following the tasks of an array job
    tr,
    \* --- the concurrency limit of a campaign's array job
    lim

actVars == <<store, baseComplete, pc, activity, do_pre_publish, resource,
             invocations, existsResult, existsSaw, transitions,
             prePublishCount, attemptDone, attemptFailed, everDone,
             rerunOfDone, delegatedFailed, entryFound, entryPre>>
genVars == <<genStore, genPc, genInvocations, genExists, genSaw>>
moreVars == <<halt, fn, camp, tr, lim>>
hpcVars == <<rd, mon, mg, mv, cm, thr, moreVars>>

coreVars == <<actVars, genVars, sb>>
vars == <<coreVars, hpcVars>>

ActIds == 1..MaxActivities
GenIds == 1..MaxGenActivities

Absent == [status |-> "Absent", endedAtTime |-> FALSE, generated |-> FALSE,
           indexed |-> FALSE]

\* ------------------------------------------------------- knowledge graph
\* An activity is found by used_config() once the index holds it; the
\* attributes of a found activity are read from the store.
Visible == {a \in ActIds : store[a].status # "Absent" /\ store[a].indexed}

\* next(activities, None): the first hit of the query, None without hits.
BbpWorkflowTarget_activity == IF Visible = {} THEN {0} ELSE Visible

BbpWorkflowTarget_exists_NoStatus(a) == a # 0

\* activity is not None and activity.status == "Done"
BbpWorkflowTarget_exists(a) == a # 0 /\ store[a].status = "Done"

StatusOf(a) == IF a = 0 THEN "None" ELSE store[a].status

\* entity.publish(..., sync_index): the new state of the entity in the store.
publish(a, rec, sync_index) ==
    [store EXCEPT ![a] = [rec EXCEPT !.indexed = (@ \/ sync_index)]]

\* the asynchronous indexing of a published activity
IndexPropagate ==
    /\ \E a \in ActIds :
          /\ store[a].status # "Absent"
          /\ ~store[a].indexed
          /\ store' = [store EXCEPT ![a].indexed = TRUE]
    /\ UNCHANGED <<baseComplete, pc, activity, do_pre_publish, resource,
                   invocations, existsResult, existsSaw, transitions,
                   prePublishCount, attemptDone, attemptFailed, everDone,
                   rerunOfDone, delegatedFailed, entryFound, entryPre>>
    /\ UNCHANGED <<genVars, sb, hpcVars>>

\* ------------------------------------------------------------ the engine
Ended == {"idle", "skipped", "returned", "raised", "dep_failed", "interrupted"}
InFlight == {"run", "try", "yield", "suspended", "publish_resource",
             "publish_done", "tracking", "except"}

\* The engine is asked for the MetaTask: complete() is output().exists();
\* run() is called only when it is false.
Launch ==
    /\ pc \in Ended
    /\ invocations < MaxInvocations
    /\ invocations' = invocations + 1
    /\ \E a \in BbpWorkflowTarget_activity :
          /\ existsResult' = BbpWorkflowTarget_exists(a)
          /\ existsSaw' = StatusOf(a)
          /\ pc' = IF BbpWorkflowTarget_exists(a) THEN "skipped" ELSE "run"
    /\ activity' = 0
    /\ do_pre_publish' = TRUE
    /\ resource' = FALSE
    /\ prePublishCount' = 0
    /\ attemptDone' = FALSE
    /\ attemptFailed' = FALSE
    /\ delegatedFailed' = FALSE
    /\ entryFound' = "none"
    /\ entryPre' = FALSE
    /\ UNCHANGED <<store, baseComplete, transitions, everDone, rerunOfDone>>
    /\ UNCHANGED <<genVars, sb, hpcVars>>

\* --------------------------------------------------------- MetaTask.run
unchangedAttempt == UNCHANGED <<baseComplete, invocations, existsResult,
                                existsSaw>>

FreeIds == {a \in ActIds : store[a].status = "Absent"}

\* activity is None: a new activity is published as Running (not indexed
\* synchronously); a failing publish raises outside the try block.
RunCreate ==
    /\ pc = "run"
    /\ 0 \in BbpWorkflowTarget_activity
    /\ FreeIds # {}
    /\ \E ok \in BOOLEAN :
          IF ok
          THEN LET n == CHOOSE a \in FreeIds : \A b \in FreeIds : a <= b
               IN /\ store' = publish(n, [status |-> "Running",
                                          endedAtTime |-> FALSE,
                                          generated |-> FALSE,
                                          indexed |-> FALSE], FALSE)
                  /\ activity' = n
                  /\ transitions' = transitions \cup {<<"Absent", "Running">>}
                  /\ pc' = "try"
          ELSE /\ pc' = "raised"
               /\ UNCHANGED <<store, activity, transitions>>
    /\ do_pre_publish' = TRUE
    /\ entryFound' = "absent"
    /\ entryPre' = FALSE
    /\ UNCHANGED <<resource, prePublishCount, attemptDone, attemptFailed,
                   everDone, rerunOfDone, delegatedFailed>>
    /\ unchangedAttempt
    /\ UNCHANGED <<genVars, sb, hpcVars>>

\* activity.endedAtTime is not None ("restart failed"): the found activity
\* is evolved in place to Running and published.
RunRestart ==
    /\ pc = "run"
    /\ \E a \in BbpWorkflowTarget_activity \ {0} :
          /\ store[a].endedAtTime
          /\ rerunOfDone' = IF a \in everDone THEN rerunOfDone \cup {a}
                            ELSE rerunOfDone
          /\ \E ok \in BOOLEAN :
                IF ok
                THEN /\ store' = publish(a, [store[a] EXCEPT
                                               !.status = "Running",
                                               !.endedAtTime = FALSE], FALSE)
                     /\ activity' = a
                     /\ transitions' =
                           transitions \cup {<<store[a].status, "Running">>}
                     /\ pc' = "try"
                ELSE /\ pc' = "raised"
                     /\ UNCHANGED <<store, activity, transitions>>
    /\ do_pre_publish' = TRUE
    /\ entryFound' = "ended"
    /\ entryPre' = FALSE
    /\ UNCHANGED <<resource, prePublishCount, attemptDone, attemptFailed,
                   everDone, delegatedFailed>>
    /\ unchangedAttempt
    /\ UNCHANGED <<genVars, sb, hpcVars>>

\* endedAtTime is None: an earlier entry did not reach a terminal status;
\* nothing is published and do_pre_publish = False.
RunResume ==
    /\ pc = "run"
    /\ \E a \in BbpWorkflowTarget_activity \ {0} :
          /\ ~store[a].endedAtTime
          /\ activity' = a
          /\ rerunOfDone' = IF a \in everDone THEN rerunOfDone \cup {a}
                            ELSE rerunOfDone
    /\ do_pre_publish' = FALSE
    /\ entryFound' = "open"
    /\ entryPre' = FALSE
    /\ pc' = "try"
    /\ UNCHANGED <<store, resource, transitions, prePublishCount, attemptDone,
                   attemptFailed, everDone, delegatedFailed>>
    /\ unchangedAttempt
    /\ UNCHANGED <<genVars, sb, hpcVars>>

\* if do_pre_publish: activity, resource = self.pre_publish_resource(activity)
\* (RunSimCampaignMeta publishes the resource and the activity generating it)
PrePublishResource ==
    /\ pc = "try"
    /\ do_pre_publish
    /\ prePublishCount' = prePublishCount + 1
    /\ entryPre' = TRUE
    /\ \E ok \in BOOLEAN :
          IF ok
          THEN /\ store' = publish(activity, [store[activity] EXCEPT
                                                !.generated = TRUE], FALSE)
               /\ resource' = TRUE
               /\ pc' = "yield"
               /\ UNCHANGED delegatedFailed
          ELSE /\ delegatedFailed' = TRUE
               /\ pc' = "except"
               /\ UNCHANGED <<store, resource>>
    /\ UNCHANGED <<activity, do_pre_publish, transitions, attemptDone,
                   attemptFailed, everDone, rerunOfDone, entryFound>>
    /\ unchangedAttempt
    /\ UNCHANGED <<genVars, sb, hpcVars>>

\* else: resource = activity.generated
UseGenerated ==
    /\ pc = "try"
    /\ ~do_pre_publish
    /\ resource' = store[activity].generated
    /\ pc' = "yield"
    /\ UNCHANGED <<store, activity, do_pre_publish, transitions,
                   prePublishCount, attemptDone, attemptFailed, everDone,
                   rerunOfDone, delegatedFailed, entryFound, entryPre>>
    /\ unchangedAttempt
    /\ UNCHANGED <<genVars, sb, hpcVars>>

\* yield self.get_base_task_instance(...): with the wrapped task complete
\* run() goes on after the yield; otherwise this entry of run() is given up
\* (its generator is closed, which `except Exception` does not catch) and
\* the engine runs the wrapped task.
YieldBaseTask ==
    /\ pc = "yield"
    /\ pc' = IF baseComplete THEN "publish_resource" ELSE "suspended"
    /\ UNCHANGED <<store, activity, do_pre_publish, resource, transitions,
                   prePublishCount, attemptDone, attemptFailed, everDone,
                   rerunOfDone, delegatedFailed, entryFound, entryPre>>
    /\ unchangedAttempt
    /\ UNCHANGED <<genVars, sb, hpcVars>>

\* the wrapped task completed: the engine enters run() again, from its start
BaseTaskCompletes ==
    /\ pc = "suspended"
    /\ baseComplete' = TRUE
    /\ pc' = "run"
    /\ activity' = 0
    /\ do_pre_publish' = TRUE
    /\ resource' = FALSE
    /\ entryFound' = "none"
    /\ entryPre' = FALSE
    /\ UNCHANGED <<store, invocations, existsResult, existsSaw, transitions,
                   prePublishCount, attemptDone, attemptFailed, everDone,
                   rerunOfDone, delegatedFailed>>
    /\ UNCHANGED <<genVars, sb, hpcVars>>

\* the wrapped task raised: the engine does not enter run() again
BaseTaskFails ==
    /\ pc = "suspended"
    /\ delegatedFailed' = TRUE
    /\ pc' = "dep_failed"
    /\ UNCHANGED <<store, activity, do_pre_publish, resource, transitions,
                   prePublishCount, attemptDone, attemptFailed, everDone,
                   rerunOfDone, entryFound, entryPre>>
    /\ unchangedAttempt
    /\ UNCHANGED <<genVars, sb, hpcVars>>

\* activity, resource = self.publish_resource(activity, resource)
\* (RunSimCampaignMeta asserts that the resource was pre-created)
PublishResource ==
    /\ pc = "publish_resource"
    /\ \E ok \in BOOLEAN :
          IF ok /\ resource
          THEN /\ pc' = "publish_done"
               /\ UNCHANGED delegatedFailed
          ELSE /\ delegatedFailed' = TRUE
               /\ pc' = "except"
    /\ UNCHANGED <<store, activity, do_pre_publish, resource, transitions,
                   prePublishCount, attemptDone, attemptFailed, everDone,
                   rerunOfDone, entryFound, entryPre>>
    /\ unchangedAttempt
    /\ UNCHANGED <<genVars, sb, hpcVars>>

\* activity.evolve(endedAtTime=now, status="Done"); publish(sync_index=True)
PublishDone ==
    /\ pc = "publish_done"
    /\ \E ok \in BOOLEAN :
          IF ok
          THEN /\ store' = publish(activity, [store[activity] EXCEPT
                                                !.status = "Done",
                                                !.endedAtTime = TRUE], TRUE)
               /\ transitions' =
                     transitions \cup {<<store[activity].status, "Done">>}
               /\ attemptDone' = TRUE
               /\ everDone' = everDone \cup {activity}
               /\ pc' = "tracking"
          ELSE /\ pc' = "except"
               /\ UNCHANGED <<store, transitions, attemptDone, everDone>>
    /\ UNCHANGED <<activity, do_pre_publish, resource, prePublishCount,
                   attemptFailed, rerunOfDone, delegatedFailed, entryFound,
                   entryPre>>
    /\ unchangedAttempt
    /\ UNCHANGED <<genVars, sb, hpcVars>>

\* if self.set_tracking_url: self.set_tracking_url(self.make_web_link(...))
\* (the engine's callback reports to the scheduler and may raise)
SetTrackingUrl ==
    /\ pc = "tracking"
    /\ \E ok \in BOOLEAN : pc' = IF ok THEN "returned" ELSE "except"
    /\ UNCHANGED <<store, activity, do_pre_publish, resource, transitions,
                   prePublishCount, attemptDone, attemptFailed, everDone,
                   rerunOfDone, delegatedFailed, entryFound, entryPre>>
    /\ unchangedAttempt
    /\ UNCHANGED <<genVars, sb, hpcVars>>

\* except Exception: evolve(endedAtTime=now, status="Failed");
\* publish(sync_index=True); raise
HandleException ==
    /\ pc = "except"
    /\ store' = publish(activity, [store[activity] EXCEPT
                                     !.status = "Failed",
                                     !.endedAtTime = TRUE], TRUE)
    /\ transitions' = transitions \cup {<<store[activity].status, "Failed">>}
    /\ attemptFailed' = TRUE
    /\ pc' = "raised"
    /\ UNCHANGED <<activity, do_pre_publish, resource, prePublishCount,
                   attemptDone, everDone, rerunOfDone, delegatedFailed,
                   entryFound, entryPre>>
    /\ unchangedAttempt
    /\ UNCHANGED <<genVars, sb, hpcVars>>

\* the process is interrupted mid-flight (killed, node lost)
Interrupt ==
    /\ pc \in InFlight
    /\ pc' = "interrupted"
    /\ UNCHANGED <<store, activity, do_pre_publish, resource, transitions,
                   prePublishCount, attemptDone, attemptFailed, everDone,
                   rerunOfDone, delegatedFailed, entryFound, entryPre>>
    /\ unchangedAttempt
    /\ UNCHANGED <<genVars, sb, hpcVars>>

MetaTask_run ==
    \/ RunCreate \/ RunRestart \/ RunResume
    \/ PrePublishResource \/ UseGenerated \/ YieldBaseTask
    \/ PublishResource \/ PublishDone \/ SetTrackingUrl \/ HandleException

\* ------------------------------------------- generator task and SBOTarget
GenAbsent == [status |-> "Absent", indexed |-> FALSE]

GenVisible == {g \in GenIds : genStore[g].status # "Absent" /\ genStore[g].indexed}

\* the query is repeated up to ten times: None when the index never held a hit
SBOTarget_activity == IF GenVisible = {} THEN {0} ELSE GenVisible

\* return self.activity is not None
SBOTarget_exists(g) == g # 0

GenEnded == {"idle", "skipped", "returned"}

GenLaunch ==
    /\ genPc \in GenEnded
    /\ genInvocations < MaxGenInvocations
    /\ genInvocations' = genInvocations + 1
    /\ \E g \in SBOTarget_activity :
          /\ genExists' = SBOTarget_exists(g)
          /\ genSaw' = IF g = 0 THEN "None" ELSE genStore[g].status
          /\ genPc' = IF SBOTarget_exists(g) THEN "skipped" ELSE "run"
    /\ UNCHANGED genStore
    /\ UNCHANGED <<actVars, sb, hpcVars>>

\* GeneratorTaskActivity(used_config, used_rev, generated, status="Done")
publish_target_status == "Done"

\* RelayGenerator.run: self.publish_target(...) publishes the activity
GeneratorTask_publish_target ==
    /\ genPc = "run"
    /\ \E g \in GenIds :
          /\ genStore[g].status = "Absent"
          /\ \A h \in GenIds : genStore[h].status = "Absent" => g <= h
          /\ genStore' = [genStore EXCEPT
                            ![g] = [status |-> publish_target_status,
                                    indexed |-> FALSE]]
    /\ genPc' = "returned"
    /\ UNCHANGED <<genInvocations, genExists, genSaw>>
    /\ UNCHANGED <<actVars, sb, hpcVars>>

GenIndexPropagate ==
    /\ \E g \in GenIds :
          /\ genStore[g].status # "Absent"
          /\ ~genStore[g].indexed
          /\ genStore' = [genStore EXCEPT ![g].indexed = TRUE]
    /\ UNCHANGED <<genPc, genInvocations, genExists, genSaw>>
    /\ UNCHANGED <<actVars, sb, hpcVars>>

\* ----------------------------------------------------------- _run_sbatch
\* sb.job is the scheduler's state of the submitted job; sb.exc is the
\* exception in flight, or the one the scope was left with; an exit code
\* of -1 stands for a command that was not run (or has not ended).
SbLeft == {"returned", "raised"}
SbInScope == {"script", "body", "wait", "finally", "after"}

SbStart(should_cancel, job_script_path, environment) ==
    [pc |-> "start", should_cancel |-> should_cancel,
     job_script_path |-> job_script_path, ENVIRONMENT |-> environment,
     job_id |-> FALSE, job |-> "none", returncode |-> -1,
     bodyNormal |-> FALSE, exc |-> "none", scancelRequests |-> 0,
     scancelRc |-> -1, sacctRc |-> -1, jobAtCancel |-> "none"]

\* The acknowledgement line is read and gives the job id; or the channel
\* ends without one, and _check_return_code or the assert raises.
SbSubmit ==
    /\ sb.pc = "start"
    /\ \/ sb' = [sb EXCEPT !.job_id = TRUE, !.job = "active", !.pc = "script"]
       \/ sb' = [sb EXCEPT !.exc = "submit", !.pc = "raised"]
    /\ UNCHANGED <<actVars, genVars, hpcVars>>

\* if job_script_path is not None: write_text(...) of the masked script
SbPersistScript ==
    /\ sb.pc = "script"
    /\ IF sb.job_script_path
       THEN \E ok \in BOOLEAN :
               sb' = IF ok THEN [sb EXCEPT !.pc = "body"]
                     ELSE [sb EXCEPT !.exc = "script", !.pc = "finally"]
       ELSE sb' = [sb EXCEPT !.pc = "body"]
    /\ UNCHANGED <<actVars, genVars, hpcVars>>

\* yield job_id, process: the caller's body returns or raises
SbBody ==
    /\ sb.pc = "body"
    /\ \E ok \in BOOLEAN :
          sb' = IF ok THEN [sb EXCEPT !.bodyNormal = TRUE, !.pc = "wait"]
                ELSE [sb EXCEPT !.exc = "body", !.pc = "finally"]
    /\ UNCHANGED <<actVars, genVars, hpcVars>>

\* process.wait(); _check_return_code(process)
SbWait ==
    /\ sb.pc = "wait"
    /\ \E rc \in {0, 1} :
          sb' = [sb EXCEPT !.returncode = rc,
                           !.exc = IF rc # 0 THEN "exitcode" ELSE "none",
                           !.pc = "finally"]
    /\ UNCHANGED <<actVars, genVars, hpcVars>>

finally_cancels_OnSuccessOnly == sb.should_cancel /\ sb.exc = "none"

\* finally: if should_cancel: _scancel(host, job_id)
finally_cancels == sb.should_cancel

\* _scancel: `scancel job_id` is run and its exit code is checked; an
\* accepted request ends a job that is still active as CANCELLED.
\* sb.jobAtCancel is the state the job had when the request was made.
SbFinally ==
    /\ sb.pc = "finally"
    /\ IF finally_cancels
       THEN \E rc \in {0, 1} :
               sb' = [sb EXCEPT
                        !.scancelRequests = @ + 1,
                        !.scancelRc = rc,
                        !.jobAtCancel = sb.job,
                        !.job = IF rc = 0 /\ sb.job = "active"
                                THEN "CANCELLED" ELSE @,
                        !.exc = IF rc # 0 THEN "scancel" ELSE @,
                        !.pc = IF rc # 0 \/ sb.exc # "none" THEN "raised"
                               ELSE "after"]
       ELSE sb' = [sb EXCEPT !.pc = IF sb.exc # "none" THEN "raised"
                                    ELSE "after"]
    /\ UNCHANGED <<actVars, genVars, hpcVars>>

was_cancelled_OnlyOnBadExit == sb.job = "CANCELLED" /\ sb.returncode # 0

\* was_cancelled = _run_cmd(host, "sacct ... -s CANCELLED -j job_id ...")
was_cancelled == sb.job = "CANCELLED"

\* if ENVIRONMENT != "aws": ... if was_cancelled: raise RuntimeError(...)
SbAccounting ==
    /\ sb.pc = "after"
    /\ IF sb.ENVIRONMENT # "aws"
       THEN \E rc \in {0, 1} :
               sb' = [sb EXCEPT
                        !.sacctRc = rc,
                        !.exc = IF rc # 0 THEN "sacct"
                                ELSE IF was_cancelled THEN "canceled"
                                ELSE "none",
                        !.pc = IF rc # 0 \/ was_cancelled THEN "raised"
                               ELSE "returned"]
       ELSE sb' = [sb EXCEPT !.pc = "returned"]
    /\ UNCHANGED <<actVars, genVars, hpcVars>>

\* the scheduler: the job ends by itself, or somebody else cancels it
JobEnds ==
    /\ sb.pc \in SbInScope
    /\ sb.job = "active"
    /\ \E st \in {"COMPLETED", "FAILED"} : sb' = [sb EXCEPT !.job = st]
    /\ UNCHANGED <<actVars, genVars, hpcVars>>

JobCancelledByUser ==
    /\ sb.pc \in SbInScope
    /\ sb.job = "active"
    /\ sb' = [sb EXCEPT !.job = "CANCELLED"]
    /\ UNCHANGED <<actVars, genVars, hpcVars>>

InitSbatch ==
    \E c \in BOOLEAN, p \in BOOLEAN, e \in {"aws", "bb5"} : sb = SbStart(c, p, e)

NextSbatch ==
    \/ SbSubmit
    \/ SbPersistScript
    \/ SbBody
    \/ SbWait
    \/ SbFinally
    \/ SbAccounting
    \/ JobEnds
    \/ JobCancelledByUser


\* --------------------------------------- _run_sbatch: reading the job id
\* A line of the channel's output is the literal prefix
\* "Submitted batch job " (or not) followed by some characters.  The
\* remote process writes rd.lines one by one and then exits; the reader
\* sees the lines already written, and end of file once the process has
\* exited and everything was read.
Digits == {"1", "2"}
Rests == {<<>>, <<"1">>, <<"2", "1">>, <<"1", "x">>}
Lines == [prefix : BOOLEAN, rest : Rests]
EofLine == [prefix |-> FALSE, rest |-> <<>>]
Streams == UNION {[1..n -> Lines] : n \in 0..MaxLines}

\* re.match(r"^Submitted batch job (\d+)$", line)
match(line) ==
    /\ line.prefix
    /\ Len(line.rest) > 0
    /\ \A i \in 1..Len(line.rest) : line.rest[i] \in Digits

HasAck(lines) == \E i \in 1..Len(lines) : match(lines[i])
FirstAck(lines) ==
    lines[CHOOSE i \in 1..Len(lines) :
             match(lines[i]) /\ \A j \in 1..(i - 1) : ~match(lines[j])]

RdIdle == [pc |-> "off"]

RdStart(lines, returncode) ==
    [pc |-> "readline", lines |-> lines, returncode |-> returncode,
     written |-> 0, exited |-> FALSE, pos |-> 0, job_id |-> <<>>,
     exc |-> "none"]

RdFrame == UNCHANGED <<coreVars, mon, mg, mv, cm, thr, moreVars>>

\* the remote process writes its next output line
ProcWrite ==
    /\ rd.pc \notin {"off"}
    /\ ~rd.exited
    /\ rd.written < Len(rd.lines)
    /\ rd' = [rd EXCEPT !.written = @ + 1]
    /\ RdFrame

\* the remote process exits after its last output line
ProcExit ==
    /\ rd.pc \notin {"off"}
    /\ ~rd.exited
    /\ rd.written = Len(rd.lines)
    /\ rd' = [rd EXCEPT !.exited = TRUE]
    /\ RdFrame

\* line = process.stdout.readline(); match = re.match(...); if match: break
RdReadline ==
    /\ rd.pc = "readline"
    /\ \/ rd.pos < rd.written
       \/ rd.pos = rd.written /\ rd.exited
    /\ LET line == IF rd.pos < rd.written THEN rd.lines[rd.pos + 1]
                   ELSE EofLine
           pos == IF rd.pos < rd.written THEN rd.pos + 1 ELSE rd.pos
       IN  rd' = IF match(line)
                 THEN [rd EXCEPT !.pos = pos, !.job_id = line.rest,
                                 !.pc = "after_loop"]
                 ELSE [rd EXCEPT !.pos = pos, !.pc = "poll"]
    /\ RdFrame

\* if process.poll() is not None: break
RdPoll ==
    /\ rd.pc = "poll"
    /\ rd' = [rd EXCEPT !.pc = IF rd.exited THEN "after_loop" ELSE "readline"]
    /\ RdFrame

\* if job_id is None and process.poll() is not None:
\*     _check_return_code(process, cmd=str(_PPCMD(sbatch_cmd)))
\* assert job_id, "Unable to submit batch job!"
RdAfterLoop ==
    /\ rd.pc = "after_loop"
    /\ rd' = IF rd.job_id = <<>> /\ rd.exited /\ rd.returncode # 0
             THEN [rd EXCEPT !.exc = "RuntimeError_with_command",
                             !.pc = "raised"]
             ELSE IF rd.job_id = <<>>
             THEN [rd EXCEPT !.exc = "AssertionError", !.pc = "raised"]
             ELSE [rd EXCEPT !.pc = "try"]
    /\ RdFrame

InitSubmit == \E l \in Streams, rc \in {0, 1} : rd = RdStart(l, rc)

NextSubmit ==
    \/ ProcWrite
    \/ ProcExit
    \/ RdReadline
    \/ RdPoll
    \/ RdAfterLoop


\* ------------------------------- campaign submission and monitor worker
\* mon.ended tells how the worker returned.
\* mon.caller is the run procedure that opened the submission scope,
\* mon.pc its position (in the body, or in _run_sbatch around it),
\* mon.thread the position of the monitor worker, mon.procExited whether
\* the submission's process handle reports completion.
Callers == {"SimCampaign", "RunSimCampaign"}
ThreadLive == {"init", "scontrol", "merge", "sleeping"}
MonIdle == [pc |-> "off"]

MonStart(caller) ==
    [pc |-> "body", caller |-> caller, thread |-> "not_started",
     procExited |-> FALSE, exc |-> FALSE, polls |-> 0, pollsAfterExit |-> 0,
     writesAfterLeft |-> FALSE, liveAtCancel |-> FALSE, liveAtLeft |-> FALSE,
     ended |-> "no"]

MonFrame == UNCHANGED <<coreVars, rd, mg, mv, cm, thr, moreVars>>

\* monitoring_thread = Thread(target=_sim_monitoring, ...); .start()
CallerStartThread ==
    /\ mon.pc = "body"
    /\ mon' = [mon EXCEPT !.thread = "init", !.pc = "tracking"]
    /\ MonFrame

\* monitoring_file = _monitoring_file(...); self.set_tracking_url(...)
\* RunSimCampaign goes on to its finally (join) inside the body;
\* SimCampaign leaves the body.
CallerTracking ==
    /\ mon.pc = "tracking"
    /\ \E raises \in BOOLEAN :
          mon' = [mon EXCEPT
                    !.exc = raises,
                    !.pc = IF mon.caller = "RunSimCampaign" THEN "join_body"
                           ELSE IF raises THEN "finally" ELSE "wait"]
    /\ MonFrame

\* RunSimCampaign.run: finally: if monitoring_thread: monitoring_thread.join()
CallerJoinBody ==
    /\ mon.pc = "join_body"
    /\ mon.thread = "terminated"
    /\ mon' = [mon EXCEPT !.pc = IF mon.exc THEN "finally" ELSE "wait"]
    /\ MonFrame

\* _run_sbatch: process.wait(); _check_return_code(process)
ScopeWait ==
    /\ mon.pc = "wait"
    /\ mon.procExited
    /\ \E raises \in BOOLEAN :
          mon' = [mon EXCEPT !.exc = raises, !.pc = "finally"]
    /\ MonFrame

\* _run_sbatch: finally: if should_cancel: _scancel(host, job_id); the
\* scope is left after it
ScopeFinally ==
    /\ mon.pc = "finally"
    /\ mon' = [mon EXCEPT !.liveAtCancel = mon.thread \in ThreadLive,
                          !.pc = "scancel_sent"]
    /\ MonFrame

ScopeLeave ==
    /\ mon.pc = "scancel_sent"
    /\ mon' = [mon EXCEPT !.liveAtLeft = mon.thread \in ThreadLive,
                          !.pc = "left"]
    /\ MonFrame

\* SimCampaign.run: finally: if monitoring_thread: monitoring_thread.join()
\* (after the with block); RunSimCampaign.run returns
CallerAfterScope ==
    /\ mon.pc = "left"
    /\ mon.caller = "SimCampaign" => mon.thread = "terminated"
    /\ mon' = [mon EXCEPT !.pc = "done"]
    /\ MonFrame

\* _sim_monitoring: no monitoring file and no resource: return
MonitorInit ==
    /\ mon.pc # "off"
    /\ mon.thread = "init"
    /\ \E nothing_to_update \in BOOLEAN :
          mon' = IF nothing_to_update
                 THEN [mon EXCEPT !.thread = "terminated", !.ended = "early"]
                 ELSE [mon EXCEPT !.thread = "scontrol"]
    /\ MonFrame

\* out = _run_cmd(DEFAULT_HOST, "scontrol -o show job ...")
\* except RuntimeError: return
MonitorScontrol ==
    /\ mon.pc # "off"
    /\ mon.thread = "scontrol"
    /\ mon.polls < MaxPolls
    /\ \E ok \in BOOLEAN :
          mon' = [mon EXCEPT
                    !.polls = @ + 1,
                    !.pollsAfterExit = IF mon.procExited THEN @ + 1 ELSE @,
                    !.ended = IF ok THEN @ ELSE "scontrol_error",
                    !.thread = IF ok THEN "merge" ELSE "terminated"]
    /\ MonFrame

monitor_stops_Never == FALSE

\* if ssh_proc.poll() is not None: return
monitor_stops == mon.procExited

\* _merge(...); _build_page(...); then the test of the process handle;
\* sleep(120) otherwise
MonitorMerge ==
    /\ mon.pc # "off"
    /\ mon.thread = "merge"
    /\ mon' = [mon EXCEPT
                 !.writesAfterLeft = @ \/ mon.pc \in {"left", "done"},
                 !.ended = IF monitor_stops THEN "process_ended" ELSE @,
                 !.thread = IF monitor_stops THEN "terminated"
                            ELSE "sleeping"]
    /\ MonFrame

MonitorWake ==
    /\ mon.pc # "off"
    /\ mon.thread = "sleeping"
    /\ mon' = [mon EXCEPT !.thread = "scontrol"]
    /\ MonFrame

\* the submission process ends (ssh_proc.poll() is not None from now on)
SshProcExits ==
    /\ mon.pc # "off"
    /\ ~mon.procExited
    /\ mon' = [mon EXCEPT !.procExited = TRUE]
    /\ MonFrame

InitMonitor == \E c \in Callers : mon = MonStart(c)

NextMonitor ==
    \/ CallerStartThread
    \/ CallerTracking
    \/ CallerJoinBody
    \/ ScopeWait
    \/ ScopeFinally
    \/ ScopeLeave
    \/ CallerAfterScope
    \/ MonitorInit
    \/ MonitorScontrol
    \/ MonitorMerge
    \/ MonitorWake
    \/ SshProcExits


\* ------------------------------------------------------ monitor: _merge
\* A poll reports, in the order of the lines of the scontrol output, the
\* JobState and ExitCode of some array indices.  mg.sim_props is the last
\* known report per index ("none" before the first), mg.sim the tracked
\* status record per index with its two time stamps; mg.prev,
\* mg.report, mg.updated, mg.stampedStart and mg.stampedEnd describe the
\* last poll, mg.before the records as they were before it.
Idx == 1..MaxIdx
JobReports ==
    {[JobState |-> "PENDING", ExitCode |-> "0:0"],
     [JobState |-> "RUNNING", ExitCode |-> "0:0"],
     [JobState |-> "COMPLETED", ExitCode |-> "0:0"],
     [JobState |-> "COMPLETED", ExitCode |-> "1:0"],
     [JobState |-> "FAILED", ExitCode |-> "1:0"]}
NoProps == [JobState |-> "none", ExitCode |-> "none"]

IsInjective(f) == \A i, j \in DOMAIN f : f[i] = f[j] => i = j
IdxOrders == {o \in UNION {[1..n -> Idx] : n \in 0..MaxIdx} : IsInjective(o)}

_is_final_state(state) == state \in {"Done", "Failed"}

_map_slurm_state(state, exit_code) ==
    CASE state = "RUNNING" -> "Running"
      [] state = "PENDING" -> "Pending"
      [] state = "COMPLETED" -> IF exit_code = "0:0" THEN "Done" ELSE "Failed"
      [] OTHER -> "None"

\* sim.evolve(status=...); the two stamps; sim.publish()
EvolveSim(sim, p) ==
    LET status == _map_slurm_state(p.JobState, p.ExitCode)
    IN  [status |-> status,
         startedAtTime |-> sim.startedAtTime \/ status = "Running",
         endedAtTime |-> sim.endedAtTime \/ _is_final_state(status)]

StampsStart(sim, p) ==
    _map_slurm_state(p.JobState, p.ExitCode) = "Running" /\ ~sim.startedAtTime

StampsEnd(sim, p) == _is_final_state(_map_slurm_state(p.JobState, p.ExitCode))

\* the loop of _merge over new_sim_props.items(), from position k on; st
\* carries sim_props, the records, the local update_state and what was
\* updated and stamped
RECURSIVE MergeFrom(_, _, _, _)
MergeFrom(st, order, props, k) ==
    IF k > Len(order) THEN st
    ELSE LET idx == order[k]
             p == props[idx]
             update_state ==
                 IF st.sim_props[idx] # NoProps
                    /\ p.JobState = st.sim_props[idx].JobState
                 THEN FALSE ELSE st.update_state
             does == update_state /\ st.tracked
             nxt == [st EXCEPT
                       !.update_state = update_state,
                       !.sim[idx] = IF does THEN EvolveSim(@, p) ELSE @,
                       !.updated = IF does THEN @ \cup {idx} ELSE @,
                       !.stampedStart =
                           IF does /\ StampsStart(st.sim[idx], p)
                           THEN @ \cup {idx} ELSE @,
                       !.stampedEnd =
                           IF does /\ StampsEnd(st.sim[idx], p)
                           THEN @ \cup {idx} ELSE @,
                       !.sim_props[idx] = p]
         IN  MergeFrom(nxt, order, props, k + 1)

_merge(order, props) ==
    MergeFrom([mg EXCEPT !.update_state = TRUE, !.updated = {},
                         !.stampedStart = {}, !.stampedEnd = {},
                         !.prev = mg.sim_props, !.before = mg.sim,
                         !.report = [i \in Idx |->
                                       IF \E k \in 1..Len(order) : order[k] = i
                                       THEN props[i] ELSE NoProps],
                         !.polls = @ + 1],
              order, props, 1)

MgIdle == [pc |-> "off"]

NewSim == [status |-> "Created", startedAtTime |-> FALSE, endedAtTime |-> FALSE]
DoneSim == [status |-> "Done", startedAtTime |-> TRUE, endedAtTime |-> TRUE]

MgStart(tracked, sims) ==
    [pc |-> "polling", tracked |-> tracked, sim |-> sims,
     sim_props |-> [i \in Idx |-> NoProps], update_state |-> TRUE,
     updated |-> {}, stampedStart |-> {}, stampedEnd |-> {},
     prev |-> [i \in Idx |-> NoProps], before |-> sims,
     report |-> [i \in Idx |-> NoProps], polls |-> 0]

\* one turn of the loop of _sim_monitoring: _process(out) and _merge(...)
MergePoll ==
    /\ mg.pc = "polling"
    /\ mg.polls < MaxMergePolls
    /\ \E order \in IdxOrders, props \in [Idx -> JobReports] :
          mg' = _merge(order, props)
    /\ UNCHANGED <<coreVars, rd, mon, mv, cm, thr, moreVars>>

\* the records come from the store: new ones, or the ones of an earlier
\* run of the same campaign
InitMerge ==
    \E tracked \in BOOLEAN, sims \in [Idx -> {NewSim, DoneSim}] :
        mg = MgStart(tracked, sims)

NextMerge == MergePoll


\* ------------------------------------------------ MultiVariantGenerator
\* mv.complete[v] tells whether the output of variant task v exists,
\* mv.published how many targets the generator has published,
\* mv.reentered whether run() was entered again after its yield.
Variants == 1..MaxVariants
MvIdle == [pc |-> "off"]
MvEnded == {"idle", "skipped", "returned", "dep_failed"}

MvStart(complete) ==
    [pc |-> "idle", complete |-> complete, invocations |-> 0,
     published |-> 0, reentered |-> FALSE, completeAtPublish |-> TRUE]

MvFrame == UNCHANGED <<coreVars, rd, mon, mg, cm, thr, moreVars>>

requirements_complete_Any(tasks) == \E v \in Variants : tasks[v]

\* the engine's test at a yield: every yielded task is complete
requirements_complete(tasks) == \A v \in Variants : tasks[v]

\* the engine starts the generator unless SBOTarget.exists(); the lookup
\* may miss an activity that is published but not indexed yet
MvLaunch ==
    /\ mv.pc \in MvEnded
    /\ mv.invocations < MaxMvInvocations
    /\ \E exists \in (IF mv.published > 0 THEN BOOLEAN ELSE {FALSE}) :
          mv' = [mv EXCEPT !.invocations = @ + 1, !.reentered = FALSE,
                           !.pc = IF exists THEN "skipped" ELSE "run"]
    /\ MvFrame

\* run: create_dir(...); tasks = self.scatter(); yield tasks
MvYield ==
    /\ mv.pc = "run"
    /\ mv' = [mv EXCEPT !.pc = IF requirements_complete(mv.complete)
                               THEN "after_yield" ELSE "suspended"]
    /\ MvFrame

\* the engine runs a variant task that is not complete: it completes ...
VariantCompletes ==
    /\ mv.pc = "suspended"
    /\ \E v \in Variants :
          /\ ~mv.complete[v]
          /\ mv' = [mv EXCEPT !.complete[v] = TRUE]
    /\ MvFrame

\* ... or fails, and run() is not entered again
VariantFails ==
    /\ mv.pc = "suspended"
    /\ \E v \in Variants : ~mv.complete[v]
    /\ mv' = [mv EXCEPT !.pc = "dep_failed"]
    /\ MvFrame

\* every variant task has run: the engine enters run() again, from its start
MvReenter ==
    /\ mv.pc = "suspended"
    /\ requirements_complete(mv.complete)
    /\ mv' = [mv EXCEPT !.pc = "run", !.reentered = TRUE]
    /\ MvFrame

\* L.debug(...); self.publish_target(self.merge(tasks))
MvPublishTarget ==
    /\ mv.pc = "after_yield"
    /\ mv' = [mv EXCEPT
                !.published = @ + 1,
                !.completeAtPublish = @ /\ (\A v \in Variants : mv.complete[v]),
                !.pc = "returned"]
    /\ MvFrame

InitMultiVariant == \E c \in [Variants -> BOOLEAN] : mv = MvStart(c)

MultiVariantGenerator_run ==
    \/ MvYield
    \/ MvPublishTarget

NextMultiVariant ==
    \/ MvLaunch
    \/ MultiVariantGenerator_run
    \/ VariantCompletes
    \/ VariantFails
    \/ MvReenter


\* ------------------------------------------------ commands with secrets
\* A text is a sequence of symbols: "EXP" is the literal `export `,
\* "TOK=" and "KC=" are `NEXUS_TOKEN=` and `KC_SCR=`, "OTHER=" the start
\* of another assignment, "q" a double quote, "SP" a space, "NL" a new
\* line, "c" any other character and "s" a character of a secret value.
\* The value of a masked variable is any non-empty string of the
\* environment (<<>>: the variable is not set).
ValueSyms == {"s", "SP", "NL"}
SecretValues == UNION {[1..n -> ValueSyms] : n \in 1..MaxSecretLen}
Unset == <<>>
Blank == {"SP", "NL"}

RECURSIVE Join(_)
Join(lines) ==
    IF Len(lines) = 0 THEN <<>>
    ELSE IF Len(lines) = 1 THEN lines[1]
    ELSE lines[1] \o <<"NL">> \o Join(Tail(lines))

\* cmd.split("\n")
RECURSIVE Split(_)
Split(text) ==
    IF \A i \in 1..Len(text) : text[i] # "NL" THEN <<text>>
    ELSE LET i == CHOOSE k \in 1..Len(text) :
                      text[k] = "NL" /\ \A j \in 1..(k - 1) : text[j] # "NL"
         IN  <<SubSeq(text, 1, i - 1)>> \o Split(SubSeq(text, i + 1, Len(text)))

\* re.sub(r"export (NEXUS_TOKEN|KC_SCR)=.+$", r"# export \1=<MASKED>", s)
PPCMD_line(line) ==
    LET hits == {i \in 1..Len(line) :
                    /\ line[i] = "EXP"
                    /\ i + 2 <= Len(line)
                    /\ line[i + 1] \in {"TOK=", "KC="}}
    IN  IF hits = {} THEN line
        ELSE LET i == CHOOSE k \in hits : \A j \in hits : k <= j
             IN  SubSeq(line, 1, i - 1) \o <<"#EXP", line[i + 1], "<MASKED>">>

RECURSIVE PPCMD_lines(_)
PPCMD_lines(lines) ==
    IF Len(lines) = 0 THEN <<>>
    ELSE <<PPCMD_line(Head(lines))>> \o PPCMD_lines(Tail(lines))

\* str(_PPCMD(cmd))
_PPCMD(cmd) == Join(PPCMD_lines(Split(cmd)))

RECURSIVE DropNonBlank(_)
DropNonBlank(text) ==
    IF Len(text) = 0 \/ Head(text) \in Blank THEN text
    ELSE DropNonBlank(Tail(text))

\* re.sub(rf"{name}=(\S+)", f"{name}=${name}", string)
RECURSIVE _mask_token(_, _)
_mask_token(string, name) ==
    IF Len(string) = 0 THEN <<>>
    ELSE IF Head(string) = name /\ Len(string) >= 2 /\ string[2] \notin Blank
    THEN <<name, "$NAME">> \o _mask_token(DropNonBlank(Tail(string)), name)
    ELSE <<Head(string)>> \o _mask_token(Tail(string), name)

\* for masked_var in MASKED_ENV_VARS: string = _mask_token(string, masked_var)
_mask(string) == _mask_token(_mask_token(string, "TOK="), "KC=")

\* export NAME="value", one line per variable that is set
kg_env_exports(tok, kc) ==
    (IF tok = Unset THEN <<>> ELSE <<<<"EXP", "TOK=", "q">> \o tok \o <<"q">>>>)
    \o <<<<"EXP", "OTHER=", "q", "c", "q">>>>
    \o (IF kc = Unset THEN <<>> ELSE <<<<"EXP", "KC=", "q">> \o kc \o <<"q">>>>)

\* "\n".join(["set -e"] + to_env_commands(env_cfg) + [... sbatch script])
_sbatch(tok, kc) == Join(<<<<"c">>>> \o kg_env_exports(tok, kc) \o <<<<"c">>>>)

\* "export " + " ".join(f"{key}={value}" ...), then " && " and the command
_build_exports(tok, kc) ==
    <<"EXP">>
    \o (IF tok = Unset THEN <<>> ELSE <<"TOK=">> \o tok \o <<"SP">>)
    \o <<"OTHER=", "c">>
    \o (IF kc = Unset THEN <<>> ELSE <<"SP", "KC=">> \o kc)

build_command(tok, kc) == _build_exports(tok, kc) \o <<"SP", "c">>

\* f"( {cmd} ) >> {filepath} 2>&1"
_redirect_to_file(cmd) == <<"c", "SP">> \o cmd \o <<"SP", "c">>

Leaks(text) == \E i \in 1..Len(text) : text[i] = "s"

Carries(text, value) ==
    value = Unset
    \/ \E i \in 1..Len(text) :
          /\ i + Len(value) - 1 <= Len(text)
          /\ SubSeq(text, i, i + Len(value) - 1) = value

CmIdle == [pc |-> "off"]

CmStart(path, tok, kc, flag) ==
    [pc |-> "debug", path |-> path, NEXUS_TOKEN |-> tok, KC_SCR |-> kc,
     flag |-> flag,
     command |-> IF path = "sbatch" THEN _sbatch(tok, kc)
                 ELSE <<"c", "SP">> \o build_command(tok, kc),
     sent |-> {}, copies |-> {}]

CmFrame == UNCHANGED <<coreVars, rd, mon, mg, mv, thr, moreVars>>

Copy(kind, text) == [kind |-> kind, text |-> text]

\* _run_sbatch: L.debug("host: %s command:\n%s", host, _PPCMD(sbatch_cmd))
\* and process.stdin.write(sbatch_cmd.encode())
SbatchLogAndSend ==
    /\ cm.pc = "debug"
    /\ cm.path = "sbatch"
    /\ cm' = [cm EXCEPT
                !.copies = @ \cup {Copy("debug log", _PPCMD(cm.command))},
                !.sent = @ \cup {cm.command},
                !.pc = "submitted"]
    /\ CmFrame

\* _run_sbatch: no job id: _check_return_code(process, cmd=str(_PPCMD(...)))
SbatchError ==
    /\ cm.pc = "submitted"
    /\ cm' = [cm EXCEPT
                !.copies = @ \cup {Copy("error message", _PPCMD(cm.command))},
                !.pc = "raised"]
    /\ CmFrame

\* _run_sbatch: if job_script_path is not None: write_text(str(_PPCMD(...)))
SbatchPersistScript ==
    /\ cm.pc = "submitted"
    /\ cm' = [cm EXCEPT
                !.copies = IF cm.flag
                           THEN @ \cup {Copy("job script", _PPCMD(cm.command))}
                           ELSE @,
                !.pc = "body"]
    /\ CmFrame

\* _run_remote_salloc_command: if output_file: command = _redirect_to_file(...);
\* _write_command_to_file(_mask(command), output_file)
SallocCommandFile ==
    /\ cm.pc = "debug"
    /\ cm.path = "salloc"
    /\ cm' = IF cm.flag
             THEN [cm EXCEPT
                     !.command = _redirect_to_file(@),
                     !.copies = @ \cup {Copy("command log file",
                                             _mask(_redirect_to_file(cm.command)))},
                     !.pc = "masked"]
             ELSE [cm EXCEPT !.pc = "masked"]
    /\ CmFrame

\* masked_command = _mask(command); L.debug(...); process.communicate(command)
SallocLogAndSend ==
    /\ cm.pc = "masked"
    /\ cm' = [cm EXCEPT
                !.copies = @ \cup {Copy("debug log", _mask(cm.command))},
                !.sent = @ \cup {cm.command},
                !.pc = "ran"]
    /\ CmFrame

\* _check_return_code(process, stdout, stderr, cmd=masked_command)
SallocCheck ==
    /\ cm.pc = "ran"
    /\ \E returncode \in {0, 1} :
          cm' = IF returncode # 0
                THEN [cm EXCEPT
                        !.copies = @ \cup {Copy("error message",
                                                _mask(cm.command))},
                        !.pc = "raised"]
                ELSE [cm EXCEPT !.pc = "returned"]
    /\ CmFrame

InitCommand ==
    \E path \in {"sbatch", "salloc"}, flag \in BOOLEAN,
       tok \in SecretValues \cup {Unset}, kc \in SecretValues \cup {Unset} :
        cm = CmStart(path, tok, kc, flag)

NextCommand ==
    \/ SbatchLogAndSend
    \/ SbatchError
    \/ SbatchPersistScript
    \/ SallocCommandFile
    \/ SallocLogAndSend
    \/ SallocCheck


\* --------------------------------------------------- SimCampaignThrottle
\* thr.live is the set of job ids of the campaign that squeue lists,
\* thr.lines the lines of its output (sorted, without duplicates),
\* thr.param the task parameter job_id (0 = None), thr.updates the
\* JobIds for which `scontrol update ArrayTaskThrottle=...` was issued.
JobIds == 1..MaxJobs
ThrIdle == [pc |-> "off"]

RECURSIVE SortedLines(_)
SortedLines(ids) ==
    IF ids = {} THEN <<>>
    ELSE LET m == CHOOSE i \in ids : \A j \in ids : i <= j
         IN  <<m>> \o SortedLines(ids \ {m})

ThrStart(live, param) ==
    [pc |-> "run", live |-> live, param |-> param, lines |-> <<>>,
     job_id |-> 0, updates |-> {}, done |-> FALSE, exc |-> "none"]

ThrFrame == UNCHANGED <<coreVars, rd, mon, mg, mv, cm, moreVars>>

throttle_job_id_FirstLine(lines, param) ==
    IF param # 0 THEN param
    ELSE IF Len(lines) >= 1 THEN lines[1] ELSE 0

\* job_id = None; if len(lines) == 1: job_id = lines[0]
\* if self.job_id is not None: job_id = self.job_id
throttle_job_id(lines, param) ==
    IF param # 0 THEN param
    ELSE IF Len(lines) = 1 THEN lines[1] ELSE 0

\* out = _run_cmd(self.host, "squeue ... | sort | uniq", capture_output=True)
\* lines = out.splitlines(); the exit code of the pipeline is that of uniq
ThrDiscover ==
    /\ thr.pc = "run"
    /\ LET lines == SortedLines(thr.live)
       IN  thr' = [thr EXCEPT !.lines = lines,
                              !.job_id = throttle_job_id(lines, thr.param),
                              !.pc = "decide"]
    /\ ThrFrame

\* if job_id is not None: _run_cmd(self.host, "scontrol update ...");
\* self.output().done()
ThrUpdate ==
    /\ thr.pc = "decide"
    /\ thr.job_id # 0
    /\ \E returncode \in {0, 1} :
          thr' = IF returncode = 0
                 THEN [thr EXCEPT !.updates = @ \cup {thr.job_id},
                                  !.done = TRUE, !.pc = "returned"]
                 ELSE [thr EXCEPT !.updates = @ \cup {thr.job_id},
                                  !.exc = "RuntimeError", !.pc = "raised"]
    /\ ThrFrame

\* else: raise ValueError("Multiple or no running JOB_IDs found ...")
ThrRaise ==
    /\ thr.pc = "decide"
    /\ thr.job_id = 0
    /\ thr' = [thr EXCEPT !.exc = "ValueError", !.pc = "raised"]
    /\ ThrFrame

SimCampaignThrottle_run ==
    \/ ThrDiscover
    \/ ThrUpdate
    \/ ThrRaise

InitThrottle ==
    \E live \in SUBSET JobIds, param \in {0} \cup JobIds :
        thr = ThrStart(live, param)

NextThrottle == SimCampaignThrottle_run


\* ------------------------------------------------------- SimCampaignHalt
\* halt.tasks[j][t] is the scheduler's state of array task t of job j;
\* every job of the campaign has its script artifact .<job id>.script.
\* halt.listed is the set of job ids handed to scancel, halt.requested
\* the job ids for which scancel was run, halt.cancelledFrom[j][t] the
\* state task t had when the request cancelled it ("no": not cancelled).
HaltJobs == 1..MaxHaltJobs
HaltTasks == 1..MaxHaltTasks
TaskLive == {"PENDING", "RUNNING"}

HaltStart(force, tasks) ==
    [pc |-> "run", force |-> force, tasks |-> tasks, listed |-> {},
     requested |-> {},
     cancelledFrom |-> [j \in HaltJobs |-> [t \in HaltTasks |-> "no"]],
     done |-> FALSE]

HaltFrame == UNCHANGED <<coreVars, rd, mon, mg, mv, cm, thr, fn, camp, tr, lim>>

\* force: find ... -name '.*.script' ... (every job id of the folder);
\* otherwise: squeue --states=PENDING --jobs=<these ids> --format=%A
HaltList ==
    /\ halt.pc = "run"
    /\ halt' = [halt EXCEPT
                  !.listed = IF halt.force THEN HaltJobs
                             ELSE {j \in HaltJobs :
                                     \E t \in HaltTasks :
                                        halt.tasks[j][t] = "PENDING"},
                  !.pc = "scancel"]
    /\ HaltFrame

halt_cancels_AnyLive(force, state) == state \in TaskLive

\* force: xargs scancel; otherwise: xargs scancel --state=PENDING
halt_cancels(force, state) ==
    IF force THEN state \in TaskLive ELSE state = "PENDING"

\* ... | xargs --no-run-if-empty scancel [--state=PENDING];
\* _run_cmd checks the exit code; self.output().done()
HaltScancel ==
    /\ halt.pc = "scancel"
    /\ \E returncode \in {0, 1} :
          halt' = [halt EXCEPT
                     !.requested = halt.listed,
                     !.tasks = [j \in HaltJobs |-> [t \in HaltTasks |->
                                  IF j \in halt.listed
                                     /\ halt_cancels(halt.force, halt.tasks[j][t])
                                  THEN "CANCELLED" ELSE halt.tasks[j][t]]],
                     !.cancelledFrom = [j \in HaltJobs |-> [t \in HaltTasks |->
                                  IF j \in halt.listed
                                     /\ halt_cancels(halt.force, halt.tasks[j][t])
                                  THEN halt.tasks[j][t] ELSE "no"]],
                     !.done = returncode = 0,
                     !.pc = IF returncode = 0 THEN "returned" ELSE "raised"]
    /\ HaltFrame

\* the scheduler starts a pending task, or a running task ends
HaltTaskStarts ==
    /\ halt.pc \in {"run", "scancel"}
    /\ \E j \in HaltJobs, t \in HaltTasks :
          /\ halt.tasks[j][t] = "PENDING"
          /\ halt' = [halt EXCEPT !.tasks[j][t] = "RUNNING"]
    /\ HaltFrame

HaltTaskEnds ==
    /\ halt.pc \in {"run", "scancel"}
    /\ \E j \in HaltJobs, t \in HaltTasks :
          /\ halt.tasks[j][t] = "RUNNING"
          /\ halt' = [halt EXCEPT !.tasks[j][t] = "COMPLETED"]
    /\ HaltFrame

SimCampaignHalt_run ==
    \/ HaltList
    \/ HaltScancel

InitHalt ==
    \E force \in BOOLEAN,
       tasks \in [HaltJobs -> [HaltTasks -> {"PENDING", "RUNNING", "COMPLETED"}]] :
        halt = HaltStart(force, tasks)

NextHalt ==
    \/ SimCampaignHalt_run
    \/ HaltTaskStarts
    \/ HaltTaskEnds


\* ------------------------------------------------------- _sbatch (hetjob)
\* Text is a sequence of symbols as above; a slurm config is the record
\* of the parameters that vary, the others keep the defaults of SlurmCfg.
FnFrame == UNCHANGED <<coreVars, rd, mon, mg, mv, cm, thr, halt, camp, tr, lim>>

Accounts == {"", "--account=a"}
Cmds == {<<>>, <<"cmd">>, <<"cmd", "SP", "arg">>}
SlurmCfgs == [account : Accounts, wait : BOOLEAN]
Components == [cfg : SlurmCfgs, cmd : Cmds]
PreCmds == {<<>>, <<"pre", "NL", "pre">>}

\* for key, param in conf.get_params(): if val: params.append(...)
map_slurm_params(conf) ==
    (IF conf.account = "" THEN <<>> ELSE <<conf.account>>)
    \o <<"--partition=prod", "--constraint=cpu">>
    \o (IF conf.wait THEN <<"--wait">> ELSE <<>>)

\* "\n".join([f"#SBATCH {param}" for param in map_slurm_params(conf)])
to_sbatch_params(conf) ==
    LET params == map_slurm_params(conf)
    IN  Join([k \in 1..Len(params) |-> <<"#SBATCH", "SP", params[k]>>])

\* sep.join(items)
RECURSIVE JoinWith(_, _)
JoinWith(sep, items) ==
    IF Len(items) = 0 THEN <<>>
    ELSE IF Len(items) = 1 THEN items[1]
    ELSE items[1] \o sep \o JoinWith(sep, Tail(items))

\* str.strip()
RECURSIVE strip(_)
strip(text) ==
    IF Len(text) = 0 THEN text
    ELSE IF text[1] \in Blank THEN strip(Tail(text))
    ELSE IF text[Len(text)] \in Blank THEN strip(SubSeq(text, 1, Len(text) - 1))
    ELSE text

\* f"--het-group={i} {cmd}".strip(), i counted from 0 by enumerate
het_group_Unnumbered(i, cmd) == strip(<<"--het-group=", "0", "SP">> \o cmd)

het_group(i, cmd) == strip(<<"--het-group=", ToString(i - 1), "SP">> \o cmd)

sbatch_script(cfgs, pre_cmd) ==
    LET cmd_str == Join(<<<<"set -e">>, <<"sbatch", "SP", "<<EOF_SBATCH">>, <<"#!">>>>)
        slurm_cfgs == [i \in 1..Len(cfgs) |-> to_sbatch_params(cfgs[i].cfg)]
        blocks == JoinWith(<<"NL", "#SBATCH", "SP", "hetjob", "NL">>, slurm_cfgs)
        srun_cmd == IF Len(cfgs) > 1
                    THEN JoinWith(<<"SP", ":", "SP">>,
                                  [i \in 1..Len(cfgs) |-> het_group(i, cfgs[i].cmd)])
                    ELSE cfgs[1].cmd
    IN  Join(<<cmd_str \o <<"NL">> \o blocks>>
             \o (IF pre_cmd # <<>> THEN <<pre_cmd>> ELSE <<>>)
             \o (IF srun_cmd # <<>> THEN <<<<"srun", "SP">> \o srun_cmd>> ELSE <<>>)
             \o <<<<"EOF_SBATCH">>>>)

SbatchCall ==
    /\ fn.pc = "_sbatch"
    /\ fn' = [pc |-> "_sbatch_returned", cfgs |-> fn.cfgs, pre_cmd |-> fn.pre_cmd,
              script |-> sbatch_script(fn.cfgs, fn.pre_cmd)]
    /\ FnFrame

InitSbatchCall ==
    \E n \in 1..MaxComponents :
       \E cfgs \in [1..n -> Components], pre_cmd \in PreCmds :
          fn = [pc |-> "_sbatch", cfgs |-> cfgs, pre_cmd |-> pre_cmd, script |-> <<>>]

NextSbatchCall == SbatchCall


\* ------------------------------------------------------- _process_alloc_params
\* 0 is the value of a parameter that was not given (worker_count None,
\* IntParameter default 0, job_name "").
AllocCfgs ==
    [nodes : 0..MaxWorkers, ntasks : 0..1, ntasks_per_node : 0..1,
     cpus_per_task : 0..MaxWorkers, exclusive : BOOLEAN, job_name : {"", "job"}]

sets_cpus_IgnoringExclusive(worker_count, slurm_cfg) ==
    worker_count # 0 /\ slurm_cfg.cpus_per_task = 0

\* if worker_count and not slurm_cfg.cpus_per_task and not slurm_cfg.exclusive
sets_cpus(worker_count, slurm_cfg) ==
    worker_count # 0 /\ slurm_cfg.cpus_per_task = 0 /\ ~slurm_cfg.exclusive

_process_alloc_params(worker_count, slurm_cfg) ==
    LET cfg1 == IF slurm_cfg.nodes = 0 \/ slurm_cfg.nodes < 2
                THEN [slurm_cfg EXCEPT !.nodes = 1, !.ntasks = 1]
                ELSE [slurm_cfg EXCEPT !.ntasks_per_node = 1]
        cfg2 == IF sets_cpus(worker_count, slurm_cfg)
                THEN [cfg1 EXCEPT !.cpus_per_task = worker_count]
                ELSE cfg1
    IN  IF slurm_cfg.job_name = "" THEN [cfg2 EXCEPT !.job_name = "wrkflw"] ELSE cfg2

AllocCall ==
    /\ fn.pc = "_process_alloc_params"
    /\ fn' = [fn EXCEPT !.pc = "_process_alloc_params_returned",
                        !.cfg = _process_alloc_params(fn.worker_count, fn.slurm_cfg)]
    /\ FnFrame

InitAllocCall ==
    \E worker_count \in 0..MaxWorkers, slurm_cfg \in AllocCfgs :
        fn = [pc |-> "_process_alloc_params", worker_count |-> worker_count,
              slurm_cfg |-> slurm_cfg, cfg |-> slurm_cfg]

NextAllocCall == AllocCall


\* ------------------------------------------------------- _mask on any text
\* The text given to _mask, symbol by symbol: "TOK=" and "KC=" are the
\* characters NEXUS_TOKEN= and KC_SCR=, "TOKX=" the characters of a longer
\* name followed by = (NEXUS_TOKEN_X=), "w" a character of a name, "v" a
\* character of a value and "SP" a space.
MaskSyms == {"w", "TOK=", "KC=", "TOKX=", "v", "SP"}
MaskTexts == UNION {[1..n -> MaskSyms] : n \in 1..MaxMaskLen}

MaskCall ==
    /\ fn.pc = "_mask"
    /\ fn' = [fn EXCEPT !.pc = "_mask_returned", !.masked = _mask(fn.string)]
    /\ FnFrame

InitMaskCall ==
    \E string \in MaskTexts : fn = [pc |-> "_mask", string |-> string, masked |-> <<>>]

NextMaskCall == MaskCall


\* ------------------------------------------------------- _build_salloc_command
\* A command, character by character: "q" a single quote, "b" a
\* backslash, "c" any other character.
CmdSyms == {"q", "b", "c"}
CmdTexts == UNION {[1..n -> CmdSyms] : n \in 1..MaxCmdLen}

\* value.replace("'", "'\\''")
RECURSIVE _escape_single_quotes(_)
_escape_single_quotes(value) ==
    IF Len(value) = 0 THEN <<>>
    ELSE (IF Head(value) = "q" THEN <<"q", "b", "q", "q">> ELSE <<Head(value)>>)
         \o _escape_single_quotes(Tail(value))

\* cmd = _escape_single_quotes(cmd.replace("'", "'\\''"))
salloc_cmd(cmd) == _escape_single_quotes(_escape_single_quotes(cmd))

\* f"... srun --mpi=none sh -c '{cmd}'": the last word of the line
_build_salloc_command(cmd) == <<"q">> \o salloc_cmd(cmd) \o <<"q">>

\* The argument the shell that reads the line hands to sh -c: inside
\* single quotes every character up to the next quote is literal, outside
\* a backslash makes the next character literal. <<"unterminated">> if
\* the word ends inside quotes.
RECURSIVE sh_word(_, _)
sh_word(word, quoted) ==
    IF Len(word) = 0 THEN (IF quoted THEN <<"unterminated">> ELSE <<>>)
    ELSE IF Head(word) = "q" THEN sh_word(Tail(word), ~quoted)
    ELSE IF quoted \/ Head(word) # "b" THEN <<Head(word)>> \o sh_word(Tail(word), quoted)
    ELSE IF Len(word) = 1 THEN <<>>
    ELSE <<word[2]>> \o sh_word(Tail(Tail(word)), quoted)

SallocCall ==
    /\ fn.pc = "_build_salloc_command"
    /\ fn' = [fn EXCEPT !.pc = "_build_salloc_command_returned",
                        !.escaped = salloc_cmd(fn.cmd),
                        !.received = sh_word(_build_salloc_command(fn.cmd), FALSE)]
    /\ FnFrame

InitSallocCall ==
    \E cmd \in CmdTexts :
        fn = [pc |-> "_build_salloc_command", cmd |-> cmd, escaped |-> <<>>,
              received |-> <<>>]

NextSallocCall == SallocCall


\* ------------------------------------------------------- index ranges
\* A range string is a sequence of symbols: the decimal text of a
\* number, "-" and ",".
IndexVals == 0..MaxIndexVal
IndexLists == UNION {[1..n -> IndexVals] : n \in 1..MaxRangeLen}

\* str(n) and int(s) on the numbers of the lists
str(n) == ToString(n)
int(s) == CHOOSE n \in IndexVals : ToString(n) = s

\* itertools.groupby(enumerate(indices), lambda i_val: i_val[1] - i_val[0]):
\* the runs of consecutive elements with the same value - position
RECURSIVE groupby(_, _)
groupby(indices, from) ==
    IF from > Len(indices) THEN <<>>
    ELSE LET key(i) == indices[i] - i
             last == CHOOSE k \in from..Len(indices) :
                        /\ \A i \in from..k : key(i) = key(from)
                        /\ k = Len(indices) \/ key(k + 1) # key(from)
         IN  <<SubSeq(indices, from, last)>> \o groupby(indices, last + 1)

range_str_FirstOnly(groups) == <<str(groups[1])>>

\* f"{groups[0]}-{groups[-1]}" if len(groups) > 1 else str(groups[0])
range_str(groups) ==
    IF Len(groups) > 1 THEN <<str(groups[1]), "-", str(groups[Len(groups)])>>
    ELSE <<str(groups[1])>>

_indices_to_ranges(indices) ==
    LET groups == groupby(indices, 1)
    IN  JoinWith(<<",">>, [g \in 1..Len(groups) |-> range_str(groups[g])])

\* vals_or_ranges.split(",")
RECURSIVE split_comma(_)
split_comma(text) ==
    IF \A i \in 1..Len(text) : text[i] # "," THEN <<text>>
    ELSE LET i == CHOOSE k \in 1..Len(text) :
                      text[k] = "," /\ \A j \in 1..(k - 1) : text[j] # ","
         IN  <<SubSeq(text, 1, i - 1)>> \o split_comma(SubSeq(text, i + 1, Len(text)))

\* list(range(int(range_from), int(range_to) + 1)) or [int(val_or_range)]
expand(val_or_range) ==
    IF \E i \in 1..Len(val_or_range) : val_or_range[i] = "-"
    THEN LET range_from == int(val_or_range[1])
             range_to == int(val_or_range[3])
         IN  [k \in 1..(range_to - range_from + 1) |-> range_from + k - 1]
    ELSE <<int(val_or_range[1])>>

RECURSIVE extend_all(_)
extend_all(parts) ==
    IF Len(parts) = 0 THEN <<>>
    ELSE expand(Head(parts)) \o extend_all(Tail(parts))

\* sorted(indices)
RECURSIVE sorted(_)
sorted(list) ==
    IF Len(list) <= 1 THEN list
    ELSE LET m == CHOOSE i \in 1..Len(list) : \A j \in 1..Len(list) : list[i] <= list[j]
         IN  <<list[m]>> \o sorted(SubSeq(list, 1, m - 1) \o SubSeq(list, m + 1, Len(list)))

_sim_indices_to_list(vals_or_ranges) ==
    IF Len(vals_or_ranges) = 0 THEN <<>>
    ELSE sorted(extend_all(split_comma(vals_or_ranges)))

RangesCall ==
    /\ fn.pc = "_indices_to_ranges"
    /\ fn' = [fn EXCEPT !.pc = "_sim_indices_to_list",
                        !.ranges = _indices_to_ranges(fn.indices)]
    /\ FnFrame

ListCall ==
    /\ fn.pc = "_sim_indices_to_list"
    /\ fn' = [fn EXCEPT !.pc = "round_trip_returned",
                        !.list = _sim_indices_to_list(fn.ranges)]
    /\ FnFrame

InitRangesCall ==
    \E indices \in IndexLists :
        fn = [pc |-> "_indices_to_ranges", indices |-> indices, ranges |-> <<>>,
              list |-> <<>>]

NextRanges ==
    \/ RangesCall
    \/ ListCall


\* ------------------------------------------------------- SimCampaign.run
\* One attempt of SimCampaign.run. camp.status is the persisted status
\* of the generation activity ("none": never published by a campaign
\* run), camp.exc the exception in flight, camp.has_file whether
\* _monitoring_file returns a file (the folder /var/www/html exists and
\* SLURM_JOB_ID is not set), camp.aws whether ENVIRONMENT is "aws".
CampStatuses == {"none", "Running", "Done", "Failed"}

CampStart(has_file, aws, status) ==
    [pc |-> "submit", has_file |-> has_file, aws |-> aws, status |-> status,
     set_running |-> FALSE, thread |-> "none", exc |-> "none", cancelled |-> FALSE]

CampFrame == UNCHANGED <<coreVars, rd, mon, mg, mv, cm, thr, halt, fn, tr, lim>>

\* _run_sbatch up to its yield: _check_return_code raises RuntimeError,
\* assert job_id raises AssertionError, or the body is entered
CampSubmit ==
    /\ camp.pc = "submit"
    /\ \E outcome \in {"yield", "RuntimeError", "AssertionError"} :
          camp' = IF outcome = "yield" THEN [camp EXCEPT !.pc = "body"]
                  ELSE [camp EXCEPT !.exc = outcome, !.pc = "except"]
    /\ CampFrame

\* generated_by.evolve(startedAtTime=..., status="Running").publish()
CampPublishRunning ==
    /\ camp.pc = "body"
    /\ camp' = [camp EXCEPT !.status = "Running", !.set_running = TRUE,
                            !.pc = "start_thread"]
    /\ CampFrame

\* monitoring_thread = Thread(...); monitoring_thread.start()
CampStartThread ==
    /\ camp.pc = "start_thread"
    /\ camp' = [camp EXCEPT !.thread = "started", !.pc = "tracking"]
    /\ CampFrame

\* monitoring_file = _monitoring_file(...); self.set_tracking_url(
\* f".../{monitoring_file.parent.name}/{monitoring_file.name}"):
\* AttributeError when _monitoring_file returned None
CampSetTrackingUrl ==
    /\ camp.pc = "tracking"
    /\ camp' = IF camp.has_file THEN [camp EXCEPT !.pc = "scope_wait"]
               ELSE [camp EXCEPT !.exc = "AttributeError", !.pc = "scope_finally"]
    /\ CampFrame

\* after the yield: process.wait(); _check_return_code(process)
CampScopeWait ==
    /\ camp.pc = "scope_wait"
    /\ \E returncode \in {0, 1} :
          camp' = [camp EXCEPT
                     !.exc = IF returncode # 0 THEN "RuntimeError" ELSE "none",
                     !.pc = "scope_finally"]
    /\ CampFrame

\* finally: _scancel(host, job_id), whose _check_return_code raises
\* RuntimeError in place of the exception in flight
CampScopeFinally ==
    /\ camp.pc = "scope_finally"
    /\ \E returncode \in {0, 1} :
          LET exc == IF returncode # 0 THEN "RuntimeError" ELSE camp.exc
          IN  camp' = [camp EXCEPT
                         !.exc = exc,
                         !.pc = IF exc # "none" THEN "except"
                                ELSE IF camp.aws THEN "publish_done"
                                ELSE "scope_sacct"]
    /\ CampFrame

\* if ENVIRONMENT != "aws": was_cancelled = sacct ... ; raise RuntimeError
CampScopeSacct ==
    /\ camp.pc = "scope_sacct"
    /\ \E record \in BOOLEAN :
          camp' = [camp EXCEPT
                     !.cancelled = record,
                     !.exc = IF record THEN "RuntimeError" ELSE "none",
                     !.pc = IF record THEN "except" ELSE "publish_done"]
    /\ CampFrame

\* generated_by.evolve(endedAtTime=..., status="Done").publish()
CampPublishDone ==
    /\ camp.pc = "publish_done"
    /\ camp' = [camp EXCEPT !.status = "Done", !.pc = "finally"]
    /\ CampFrame

\* except RuntimeError:
camp_handles(exc) == exc = "RuntimeError"

\* except RuntimeError: ... status="Failed").publish(); raise
CampExcept ==
    /\ camp.pc = "except"
    /\ camp' = [camp EXCEPT
                  !.status = IF camp_handles(camp.exc) THEN "Failed" ELSE camp.status,
                  !.pc = "finally"]
    /\ CampFrame

\* finally: if monitoring_thread: monitoring_thread.join()
CampFinally ==
    /\ camp.pc = "finally"
    /\ camp' = [camp EXCEPT
                  !.thread = IF camp.thread = "started" THEN "joined" ELSE camp.thread,
                  !.pc = IF camp.exc = "none" THEN "returned" ELSE "raised"]
    /\ CampFrame

SimCampaign_run ==
    \/ CampSubmit
    \/ CampPublishRunning
    \/ CampStartThread
    \/ CampSetTrackingUrl
    \/ CampScopeWait
    \/ CampScopeFinally
    \/ CampScopeSacct
    \/ CampPublishDone
    \/ CampExcept
    \/ CampFinally

InitCamp ==
    \E has_file \in BOOLEAN, aws \in BOOLEAN, status \in {"none", "Done", "Failed"} :
        camp = CampStart(has_file, aws, status)

NextCamp == SimCampaign_run


\* ------------------------------------------- _sim_monitoring with tasks
\* The monitor worker of a tracked campaign (resource_url given) next
\* to the array tasks and the submission's process. tr.task[i] is what
\* the scheduler knows of task i, tr.out the report the last scontrol
\* returned, tr.sim_props and tr.sim what _merge keeps and persists,
\* tr.finishedAtExit the indices whose task had finished when the
\* process completed.
TaskFinal == {r \in JobReports : r.JobState \notin {"PENDING", "RUNNING"}}

TrStart ==
    [pc |-> "scontrol",
     task |-> [i \in Idx |-> [JobState |-> "PENDING", ExitCode |-> "0:0"]],
     out |-> [i \in Idx |-> NoProps],
     sim_props |-> [i \in Idx |-> NoProps],
     sim |-> [i \in Idx |-> NewSim],
     procExited |-> FALSE, finishedAtExit |-> {}, polls |-> 0, ended |-> "no"]

TrFrame == UNCHANGED <<coreVars, rd, mon, mg, mv, cm, thr, halt, fn, camp, lim>>

\* the scheduler starts a task
TrTaskStarts ==
    /\ tr.pc # "off"
    /\ ~tr.procExited
    /\ \E i \in Idx :
          /\ tr.task[i].JobState = "PENDING"
          /\ tr' = [tr EXCEPT !.task[i].JobState = "RUNNING"]
    /\ TrFrame

\* a running task ends
TrTaskEnds ==
    /\ tr.pc # "off"
    /\ ~tr.procExited
    /\ \E i \in Idx, r \in TaskFinal :
          /\ tr.task[i].JobState = "RUNNING"
          /\ tr' = [tr EXCEPT !.task[i] = r]
    /\ TrFrame

\* sbatch --wait returns when the tasks of the job have ended
TrProcExits ==
    /\ tr.pc # "off"
    /\ ~tr.procExited
    /\ \A i \in Idx : tr.task[i] \in TaskFinal
    /\ tr' = [tr EXCEPT !.procExited = TRUE,
                        !.finishedAtExit = {i \in Idx : tr.task[i] \in TaskFinal}]
    /\ TrFrame

\* out = _run_cmd(DEFAULT_HOST, f"scontrol -o show job {job_id}", ...);
\* except RuntimeError: return. The tasks that are not pending are
\* reported with their index, in the order of the indices.
TrScontrol ==
    /\ tr.pc = "scontrol"
    /\ tr.polls < MaxTrPolls
    /\ \E returncode \in {0, 1} :
          tr' = IF returncode # 0
                THEN [tr EXCEPT !.pc = "stopped", !.ended = "scontrol_error"]
                ELSE [tr EXCEPT
                        !.out = [i \in Idx |->
                                   IF tr.task[i].JobState = "PENDING" THEN NoProps
                                   ELSE tr.task[i]],
                        !.polls = @ + 1,
                        !.pc = "merge"]
    /\ TrFrame

tr_order == [k \in 1..MaxIdx |-> k]

\* pending, new_sim_props = _process(out); _merge(sim_props, new_sim_props, ...)
TrMerge ==
    /\ tr.pc = "merge"
    /\ LET reported == SelectSeq(tr_order, LAMBDA i : tr.out[i] # NoProps)
           st == MergeFrom([sim_props |-> tr.sim_props, sim |-> tr.sim,
                            update_state |-> TRUE, tracked |-> TRUE,
                            updated |-> {}, stampedStart |-> {}, stampedEnd |-> {}],
                           reported, tr.out, 1)
       IN  tr' = [tr EXCEPT !.sim_props = st.sim_props, !.sim = st.sim, !.pc = "check"]
    /\ TrFrame

\* if ssh_proc.poll() is not None: return
TrCheck ==
    /\ tr.pc = "check"
    /\ tr' = IF tr.procExited
             THEN [tr EXCEPT !.pc = "stopped", !.ended = "process_ended"]
             ELSE [tr EXCEPT !.pc = "sleep"]
    /\ TrFrame

\* sleep(120)
TrWake ==
    /\ tr.pc = "sleep"
    /\ tr' = [tr EXCEPT !.pc = "scontrol"]
    /\ TrFrame

_sim_monitoring ==
    \/ TrScontrol
    \/ TrMerge
    \/ TrCheck
    \/ TrWake

InitTracked == tr = TrStart

NextTracked ==
    \/ _sim_monitoring
    \/ TrTaskStarts
    \/ TrTaskEnds
    \/ TrProcExits


\* ------------------------------------------------- concurrency limit
\* The array job of a campaign: lim.nodes is the nodes of one
\* simulation, lim.limit the ArrayTaskThrottle of the job (the
\* %parallel_jobs of its job_array, then what scontrol update set).
AVAILABLE_NODES == 800
ParallelJobs == {1, 2, 4, 8, 9, 10}
NodeCounts == {1, 100, 200, 400}

LimStart(nodes) ==
    [pc |-> "submit", nodes |-> nodes, limit |-> 0, throttles |-> 0, exc |-> "none"]

LimFrame == UNCHANGED <<coreVars, rd, mon, mg, mv, cm, thr, halt, fn, camp, tr>>

\* assert parallel_jobs * nodes <= AVAILABLE_NODES
within_nodes(parallel_jobs, nodes) == parallel_jobs * nodes <= AVAILABLE_NODES

\* _prepare_sbatch: the assert, then job_array=f"{sim_indices}%{parallel_jobs}"
LimSubmit ==
    /\ lim.pc = "submit"
    /\ \E parallel_jobs \in ParallelJobs :
          lim' = IF within_nodes(parallel_jobs, lim.nodes)
                 THEN [lim EXCEPT !.limit = parallel_jobs, !.pc = "submitted"]
                 ELSE [lim EXCEPT !.exc = "AssertionError", !.pc = "raised"]
    /\ LimFrame

\* SimCampaignThrottle.run:
\* _run_cmd(host, f"scontrol update ArrayTaskThrottle={self.parallel_jobs} JobId={job_id}")
LimThrottle ==
    /\ lim.pc = "submitted"
    /\ lim.throttles < MaxThrottles
    /\ \E parallel_jobs \in ParallelJobs, returncode \in {0, 1} :
          lim' = [lim EXCEPT
                    !.limit = IF returncode = 0 THEN parallel_jobs ELSE @,
                    !.throttles = @ + 1]
    /\ LimFrame

InitLimit == \E nodes \in NodeCounts : lim = LimStart(nodes)

NextLimit ==
    \/ LimSubmit
    \/ LimThrottle


\* ------------------------------------------------------- specification
InitActivity ==
    /\ store = [a \in ActIds |-> Absent]
    /\ baseComplete \in BOOLEAN
    /\ pc = "idle"
    /\ activity = 0
    /\ do_pre_publish = TRUE
    /\ resource = FALSE
    /\ invocations = 0
    /\ existsResult = FALSE
    /\ existsSaw = "unchecked"
    /\ transitions = {}
    /\ prePublishCount = 0
    /\ attemptDone = FALSE
    /\ attemptFailed = FALSE
    /\ everDone = {}
    /\ rerunOfDone = {}
    /\ delegatedFailed = FALSE
    /\ entryFound = "none"
    /\ entryPre = FALSE

InitGenerator ==
    /\ genStore = [g \in GenIds |-> GenAbsent]
    /\ genPc = "idle"
    /\ genInvocations = 0
    /\ genExists = FALSE
    /\ genSaw = "unchecked"

SbIdle == [pc |-> "off"]

NextActivity ==
    \/ Launch
    \/ MetaTask_run
    \/ BaseTaskCompletes
    \/ BaseTaskFails
    \/ Interrupt
    \/ IndexPropagate
    \/ GenLaunch
    \/ GeneratorTask_publish_target
    \/ GenIndexPropagate

HaltIdle == [pc |-> "off"]
FnIdle == [pc |-> "off"]
CampIdle == [pc |-> "off"]
TrIdle == [pc |-> "off"]
LimIdle == [pc |-> "off"]

InitMoreIdle ==
    /\ halt = HaltIdle
    /\ fn = FnIdle
    /\ camp = CampIdle
    /\ tr = TrIdle
    /\ lim = LimIdle

InitCoreIdle ==
    /\ InitActivity
    /\ InitGenerator
    /\ sb = SbIdle

InitHpcIdle ==
    /\ rd = RdIdle
    /\ mon = MonIdle
    /\ mg = MgIdle
    /\ mv = MvIdle
    /\ cm = CmIdle
    /\ thr = ThrIdle

InitMetaTask ==
    /\ InitCoreIdle
    /\ rd = RdIdle
    /\ mon = MonIdle
    /\ mg = MgIdle
    /\ mv = MvIdle
    /\ cm = CmIdle
    /\ thr = ThrIdle
    /\ InitMoreIdle

InitRunSbatch ==
    /\ InitActivity
    /\ InitGenerator
    /\ InitSbatch
    /\ rd = RdIdle
    /\ mon = MonIdle
    /\ mg = MgIdle
    /\ mv = MvIdle
    /\ cm = CmIdle
    /\ thr = ThrIdle
    /\ InitMoreIdle

InitReadJobId ==
    /\ InitCoreIdle
    /\ InitSubmit
    /\ mon = MonIdle
    /\ mg = MgIdle
    /\ mv = MvIdle
    /\ cm = CmIdle
    /\ thr = ThrIdle
    /\ InitMoreIdle

InitCampaignMonitor ==
    /\ InitCoreIdle
    /\ rd = RdIdle
    /\ InitMonitor
    /\ mg = MgIdle
    /\ mv = MvIdle
    /\ cm = CmIdle
    /\ thr = ThrIdle
    /\ InitMoreIdle

InitMonitorMerge ==
    /\ InitCoreIdle
    /\ rd = RdIdle
    /\ mon = MonIdle
    /\ InitMerge
    /\ mv = MvIdle
    /\ cm = CmIdle
    /\ thr = ThrIdle
    /\ InitMoreIdle

InitDynamicDeps ==
    /\ InitCoreIdle
    /\ rd = RdIdle
    /\ mon = MonIdle
    /\ mg = MgIdle
    /\ InitMultiVariant
    /\ cm = CmIdle
    /\ thr = ThrIdle
    /\ InitMoreIdle

InitMaskedCommand ==
    /\ InitCoreIdle
    /\ rd = RdIdle
    /\ mon = MonIdle
    /\ mg = MgIdle
    /\ mv = MvIdle
    /\ InitCommand
    /\ thr = ThrIdle
    /\ InitMoreIdle

InitCampaignThrottle ==
    /\ InitCoreIdle
    /\ rd = RdIdle
    /\ mon = MonIdle
    /\ mg = MgIdle
    /\ mv = MvIdle
    /\ cm = CmIdle
    /\ InitThrottle
    /\ InitMoreIdle

\* the tasks that yield dynamic dependencies: a MetaTask and a
\* MultiVariantGenerator, run by the engine
NextDynamicDeps ==
    \/ Launch
    \/ MetaTask_run
    \/ BaseTaskCompletes
    \/ BaseTaskFails
    \/ Interrupt
    \/ IndexPropagate
    \/ NextMultiVariant

InitCampaignHalt ==
    /\ InitCoreIdle
    /\ InitHpcIdle
    /\ InitHalt
    /\ fn = FnIdle
    /\ camp = CampIdle
    /\ tr = TrIdle
    /\ lim = LimIdle

InitHetjob ==
    /\ InitCoreIdle
    /\ InitHpcIdle
    /\ InitSbatchCall
    /\ halt = HaltIdle
    /\ camp = CampIdle
    /\ tr = TrIdle
    /\ lim = LimIdle

InitAllocParams ==
    /\ InitCoreIdle
    /\ InitHpcIdle
    /\ InitAllocCall
    /\ halt = HaltIdle
    /\ camp = CampIdle
    /\ tr = TrIdle
    /\ lim = LimIdle

InitMaskText ==
    /\ InitCoreIdle
    /\ InitHpcIdle
    /\ InitMaskCall
    /\ halt = HaltIdle
    /\ camp = CampIdle
    /\ tr = TrIdle
    /\ lim = LimIdle

InitSallocQuotes ==
    /\ InitCoreIdle
    /\ InitHpcIdle
    /\ InitSallocCall
    /\ halt = HaltIdle
    /\ camp = CampIdle
    /\ tr = TrIdle
    /\ lim = LimIdle

InitIndexRanges ==
    /\ InitCoreIdle
    /\ InitHpcIdle
    /\ InitRangesCall
    /\ halt = HaltIdle
    /\ camp = CampIdle
    /\ tr = TrIdle
    /\ lim = LimIdle

InitSimCampaign ==
    /\ InitCoreIdle
    /\ InitHpcIdle
    /\ InitCamp
    /\ halt = HaltIdle
    /\ fn = FnIdle
    /\ tr = TrIdle
    /\ lim = LimIdle

InitTrackedMonitor ==
    /\ InitCoreIdle
    /\ InitHpcIdle
    /\ InitTracked
    /\ halt = HaltIdle
    /\ fn = FnIdle
    /\ camp = CampIdle
    /\ lim = LimIdle

InitArrayLimit ==
    /\ InitCoreIdle
    /\ InitHpcIdle
    /\ InitLimit
    /\ halt = HaltIdle
    /\ fn = FnIdle
    /\ camp = CampIdle
    /\ tr = TrIdle

SpecActivity == InitMetaTask /\ [][NextActivity]_vars

SpecSbatch == InitRunSbatch /\ [][NextSbatch]_vars

SpecSubmit == InitReadJobId /\ [][NextSubmit]_vars

SpecMonitor == InitCampaignMonitor /\ [][NextMonitor]_vars

SpecMerge == InitMonitorMerge /\ [][NextMerge]_vars

SpecDynamicDeps == InitDynamicDeps /\ [][NextDynamicDeps]_vars

SpecCommand == InitMaskedCommand /\ [][NextCommand]_vars

SpecThrottle == InitCampaignThrottle /\ [][NextThrottle]_vars

SpecHalt == InitCampaignHalt /\ [][NextHalt]_vars

SpecHetjob == InitHetjob /\ [][NextSbatchCall]_vars

SpecAlloc == InitAllocParams /\ [][NextAllocCall]_vars

SpecMask == InitMaskText /\ [][NextMaskCall]_vars

SpecSalloc == InitSallocQuotes /\ [][NextSallocCall]_vars

SpecRanges == InitIndexRanges /\ [][NextRanges]_vars

SpecCampaign == InitSimCampaign /\ [][NextCamp]_vars

SpecTracked == InitTrackedMonitor /\ [][NextTracked]_vars

SpecLimit == InitArrayLimit /\ [][NextLimit]_vars

\* ------------------------------------------------------------- claims
\* C1: every persisted change of the Activity's status is one of
\* no Activity -> Running, Running -> Done, Running -> Failed.
C1_OnlyThreeTransitions ==
    transitions \subseteq {<<"Absent", "Running">>, <<"Running", "Done">>,
                           <<"Running", "Failed">>}

\* C2: once an Activity has been persisted as Done, no later invocation
\* enters run() for it again (it is never restarted or resumed).
C2_DoneNeverReexecuted == rerunOfDone = {}

\* C3: within one attempt the Activity is never persisted as Done and also
\* as Failed.
C3_OneTerminalStatus == ~(attemptDone /\ attemptFailed)

\* C4: pre_publish_resource is invoked in an entry of run() if and only if
\* the Activity found at its start is absent or has endedAtTime set, and at
\* most once in an attempt, re-entry after the wrapped task included.
PastTry == {"yield", "suspended", "publish_resource", "publish_done",
            "tracking"}
C4_PrePublishOncePerAttempt ==
    /\ prePublishCount <= 1
    /\ entryPre => entryFound \in {"absent", "ended"}
    /\ entryFound = "open" => ~entryPre
    /\ (pc \in PastTry /\ entryFound \in {"absent", "ended"}) => entryPre

\* C5: when the delegated execution of an attempt raised, the attempt ends
\* by raising with the Activity persisted as Failed and endedAtTime set.
C5_FailureRecordedAndRaised ==
    (pc \in {"returned", "raised", "dep_failed"} /\ delegatedFailed) =>
        /\ pc = "raised"
        /\ activity # 0
        /\ store[activity].status = "Failed"
        /\ store[activity].endedAtTime

C7_AtMostOneLive ==
    Cardinality({a \in ActIds : store[a].status = "Running"}) <= 1

\* C8: however the scope is left after a job id was obtained, exactly one
\* cancellation request was issued when should_cancel is true and none
\* when it is false.
C8_CancelIffShouldCancel ==
    (sb.pc \in SbLeft /\ sb.job_id) =>
        sb.scancelRequests = (IF sb.should_cancel THEN 1 ELSE 0)

C8_Witness ==
    /\ sb.pc = "raised"
    /\ sb.exc = "body"
    /\ sb.should_cancel
    /\ sb.scancelRequests = 1

C10_SuccessNeverRaises ==
    (sb.pc \in SbLeft /\ sb.job_id /\ sb.bodyNormal /\ sb.returncode = 0
        /\ sb.job \in {"COMPLETED", "FAILED"}) => sb.pc = "returned"

RdLeft == {"try", "raised"}

\* C11: when the output of the submission channel holds an
\* acknowledgement line "Submitted batch job <digits>", the caller's body
\* is entered with exactly that digit string as job id, whatever lines
\* come before it and whenever the remote process exits.
C11_AckLineGivesJobId ==
    (rd.pc \in RdLeft /\ HasAck(rd.lines)) =>
        /\ rd.pc = "try"
        /\ rd.job_id = FirstAck(rd.lines).rest

\* C12: when the channel closes without an acknowledgement line, whatever
\* the exit code, the error raised carries the masked script, and the
\* caller's body is not entered.
C12_NoAckRaisesWithScript ==
    (rd.pc \in RdLeft /\ ~HasAck(rd.lines)) =>
        /\ rd.pc = "raised"
        /\ rd.exc = "RuntimeError_with_command"

JobFinished == {"COMPLETED", "FAILED", "CANCELLED"}

\* C13: a cancellation request for a job that has already finished, or
\* was already cancelled, raises no error and changes nothing.
C13_CancelFinishedIsNoOp ==
    (sb.pc # "off" /\ sb.scancelRequests > 0
       /\ sb.jobAtCancel \in JobFinished) =>
        /\ sb.exc # "scancel"
        /\ sb.job = sb.jobAtCancel

\* C14: whenever a submission scope that started a monitor worker is
\* exited, the worker has terminated before the scope-exit cancellation
\* request and before the scope is left, and it writes nothing afterwards.
C14_MonitorJoinedBeforeExit ==
    mon.pc # "off" =>
        /\ ~mon.liveAtCancel
        /\ ~mon.liveAtLeft
        /\ ~mon.writesAfterLeft

\* C17: a poll begun after the submission's process handle reported
\* completion is the last one: there is at most one such poll, and the
\* worker has terminated when it is over.
C17_StopsAfterProcessEnds ==
    mon.pc # "off" =>
        /\ mon.pollsAfterExit <= 1
        /\ (mon.pollsAfterExit = 1 /\ mon.thread # "merge") =>
               mon.thread = "terminated"
        /\ mon.thread = "sleeping" => mon.pollsAfterExit = 0

C17_Witness ==
    /\ mon.pc # "off"
    /\ mon.procExited
    /\ mon.polls >= 2
    /\ mon.pollsAfterExit = 1
    /\ mon.thread = "terminated"
    /\ mon.ended = "process_ended"

Reported == {i \in Idx : mg.report[i] # NoProps}

\* C15: in a poll the record of a reported index is updated and persisted
\* exactly when the index is seen for the first time or its JobState
\* differs from the last known one of that index, whatever the other
\* indices of the same poll report.
C15_UpdateIffTransition ==
    (mg.pc # "off" /\ mg.tracked /\ mg.polls > 0) =>
        \A i \in Reported :
            i \in mg.updated <=>
                (mg.prev[i] = NoProps
                   \/ mg.prev[i].JobState # mg.report[i].JobState)

\* C16: the start time is stamped when the record first enters Running
\* and the end time when it first enters Done or Failed, and a stamp that
\* is set is not written again by a later poll.
C16_StampsWrittenOnce ==
    (mg.pc # "off" /\ mg.polls > 0) =>
        \A i \in Idx :
            /\ i \in mg.stampedStart => ~mg.before[i].startedAtTime
            /\ i \in mg.stampedEnd => ~mg.before[i].endedAtTime
            /\ (mg.sim[i].status = "Running"
                  /\ mg.before[i].status # "Running") =>
                   mg.sim[i].startedAtTime
            /\ (_is_final_state(mg.sim[i].status)
                  /\ ~_is_final_state(mg.before[i].status)) =>
                   i \in mg.stampedEnd

AfterYield == {"publish_resource", "publish_done", "tracking"}

C19_SecretsNeverLogged ==
    cm.pc # "off" =>
        /\ \A copy \in cm.copies : ~Leaks(copy.text)
        /\ \A text \in cm.sent :
               Carries(text, cm.NEXUS_TOKEN) /\ Carries(text, cm.KC_SCR)

ThrEnded == {"returned", "raised"}

C21_HaltOnlyPendingUnlessForced ==
    halt.pc # "off" =>
        /\ ~halt.force =>
               \A j \in HaltJobs, t \in HaltTasks :
                   halt.cancelledFrom[j][t] \in {"no", "PENDING"}
        /\ (halt.force /\ halt.pc = "returned") =>
               /\ halt.requested = HaltJobs
               /\ \A j \in HaltJobs, t \in HaltTasks :
                      halt.tasks[j][t] \notin TaskLive

C21_Witness ==
    /\ halt.pc = "returned"
    /\ ~halt.force
    /\ \E j \in HaltJobs :
          /\ halt.cancelledFrom[j][1] = "PENDING"
          /\ halt.tasks[j][2] = "RUNNING"

\* the lines of the script that are directives, the separators apart
HetjobLine == <<"#SBATCH", "SP", "hetjob">>
IsDirective(line) == Len(line) >= 1 /\ line[1] = "#SBATCH" /\ line # HetjobLine
IsSrun(line) == Len(line) >= 1 /\ line[1] = "srun"

\* the blocks of directive lines of a script: a new block starts at each
\* separator line
RECURSIVE DirectiveBlocks(_)
DirectiveBlocks(lines) ==
    IF \A k \in 1..Len(lines) : lines[k] # HetjobLine
    THEN <<SelectSeq(lines, IsDirective)>>
    ELSE LET k == CHOOSE i \in 1..Len(lines) :
                      lines[i] = HetjobLine /\ \A j \in 1..(i - 1) : lines[j] # HetjobLine
         IN  <<SelectSeq(SubSeq(lines, 1, k - 1), IsDirective)>>
             \o DirectiveBlocks(SubSeq(lines, k + 1, Len(lines)))

\* the fragments of an execution line: the text after "srun " cut at " : "
RECURSIVE Fragments(_)
Fragments(text) ==
    LET cuts == {k \in 1..(Len(text) - 2) :
                    text[k] = "SP" /\ text[k + 1] = ":" /\ text[k + 2] = "SP"}
    IN  IF cuts = {} THEN <<text>>
        ELSE LET k == CHOOSE i \in cuts : \A j \in cuts : i <= j
             IN  <<SubSeq(text, 1, k - 1)>> \o Fragments(SubSeq(text, k + 3, Len(text)))

\* C22: for N >= 2 components the script holds exactly N directive
\* blocks, in component order, with N - 1 separator lines between them,
\* followed by exactly one execution line whose fragment i carries the
\* group index i (from 0) and the command of component i, the fragments
\* joined by " : ".
C22_HetjobLayout ==
    (fn.pc = "_sbatch_returned" /\ Len(fn.cfgs) >= 2) =>
        LET lines == Split(fn.script)
            n == Len(fn.cfgs)
            blocks == DirectiveBlocks(lines)
            sruns == {k \in 1..Len(lines) : IsSrun(lines[k])}
        IN  /\ Len(SelectSeq(lines, LAMBDA l : l = HetjobLine)) = n - 1
            /\ Len(blocks) = n
            /\ \A i \in 1..n :
                  blocks[i] = [k \in 1..Len(map_slurm_params(fn.cfgs[i].cfg)) |->
                                 <<"#SBATCH", "SP", map_slurm_params(fn.cfgs[i].cfg)[k]>>]
            /\ Cardinality(sruns) = 1
            /\ \A k \in sruns :
                  /\ \A j \in 1..Len(lines) :
                        (IsDirective(lines[j]) \/ lines[j] = HetjobLine) => j < k
                  /\ LET frags == Fragments(SubSeq(lines[k], 3, Len(lines[k])))
                     IN  /\ Len(frags) = n
                         /\ \A i \in 1..n :
                               /\ SubSeq(frags[i], 1, 2) = <<"--het-group=", ToString(i - 1)>>
                               /\ frags[i] = <<"--het-group=", ToString(i - 1)>>
                                             \o (IF fn.cfgs[i].cmd = <<>> THEN <<>>
                                                 ELSE <<"SP">> \o fn.cfgs[i].cmd)

C22_Witness ==
    /\ fn.pc = "_sbatch_returned"
    /\ Len(fn.cfgs) = 3
    /\ fn.cfgs[1].cfg # fn.cfgs[2].cfg
    /\ fn.cfgs[1].cmd = <<>>
    /\ fn.cfgs[3].cmd = <<"cmd", "SP", "arg">>
    /\ fn.pre_cmd # <<>>

\* C23: _process_alloc_params returns cpus_per_task equal to the worker
\* count exactly when a worker count is given, no cpus_per_task was
\* requested and the allocation is not exclusive; in every other case
\* the requested cpus_per_task is returned unchanged.
C23_CpusPerTaskFromWorkers ==
    fn.pc = "_process_alloc_params_returned" =>
        IF fn.worker_count # 0 /\ fn.slurm_cfg.cpus_per_task = 0
           /\ ~fn.slurm_cfg.exclusive
        THEN fn.cfg.cpus_per_task = fn.worker_count
        ELSE fn.cfg.cpus_per_task = fn.slurm_cfg.cpus_per_task

C23_Witness ==
    /\ fn.pc = "_process_alloc_params_returned"
    /\ fn.worker_count = 2
    /\ fn.slurm_cfg.exclusive
    /\ fn.slurm_cfg.cpus_per_task = 0
    /\ fn.slurm_cfg.nodes = 2
    /\ fn.cfg.cpus_per_task = 0

\* the words of a text: its parts between spaces
RECURSIVE Words(_)
Words(text) ==
    IF \A i \in 1..Len(text) : text[i] # "SP" THEN <<text>>
    ELSE LET i == CHOOSE k \in 1..Len(text) :
                      text[k] = "SP" /\ \A j \in 1..(k - 1) : text[j] # "SP"
         IN  <<SubSeq(text, 1, i - 1)>> \o Words(SubSeq(text, i + 1, Len(text)))

\* C24: _mask leaves unchanged every assignment whose name is not
\* exactly NEXUS_TOKEN or KC_SCR, also one whose name holds a secret name
\* as a part of a longer name; only the values assigned to NEXUS_TOKEN
\* and KC_SCR themselves are replaced.
C24_MaskOnlyExactNames ==
    fn.pc = "_mask_returned" =>
        LET before == Words(fn.string)
            after == Words(fn.masked)
        IN  /\ Len(after) = Len(before)
            /\ \A i \in 1..Len(before) :
                  (before[i] = <<>> \/ before[i][1] \notin {"TOK=", "KC="})
                      => after[i] = before[i]

\* C25: in the sh -c '...' of the allocation wrapper each single quote
\* of the command is replaced by exactly one '\'' sequence, and the
\* inner shell receives the text of the command unchanged.
C25_QuotesEscapedOnce ==
    fn.pc = "_build_salloc_command_returned" =>
        /\ fn.escaped = _escape_single_quotes(fn.cmd)
        /\ fn.received = fn.cmd

StrictlyIncreasing(list) == \A i \in 1..(Len(list) - 1) : list[i] < list[i + 1]

\* C26: for every non-empty, strictly increasing list xs of non-negative
\* indices, _sim_indices_to_list(_indices_to_ranges(xs)) = xs.
C26_RangesRoundTrip ==
    (fn.pc = "round_trip_returned" /\ StrictlyIncreasing(fn.indices)) =>
        fn.list = fn.indices

C26_Witness ==
    /\ fn.pc = "round_trip_returned"
    /\ fn.indices = <<0, 1, 2, 4>>
    /\ fn.ranges = <<"0", "-", "2", ",", "4">>
    /\ fn.list = fn.indices

CampEnded == {"returned", "raised"}

\* C27: every attempt of SimCampaign.run that set the generation
\* activity to Running ends with the activity persisted as Done or as
\* Failed, whatever ended the attempt.
C27_RunningEndsDoneOrFailed ==
    (camp.pc \in CampEnded /\ camp.set_running) => camp.status \in {"Done", "Failed"}

\* C28: for every tracked index whose task had finished when the
\* submission's process completed, the record persisted by the monitor
\* has a terminal status (Done or Failed) once the monitor worker has
\* stopped, for every interleaving of polls, task changes and process
\* completion.
C28_FinishedTasksPersistedTerminal ==
    (tr.pc = "stopped" /\ tr.procExited) =>
        \A i \in tr.finishedAtExit : _is_final_state(tr.sim[i].status)

PersistedStatuses == {"Pending", "Running", "Done", "Failed"}

\* C29: the status the monitor persists for a tracked record is one of
\* Pending, Running, Done, Failed, for every job state the scheduler
\* reports; it is never an undefined or empty status.
C29_PersistedStatusDefined ==
    (mg.pc # "off" /\ mg.tracked) =>
        \A i \in mg.updated : mg.sim[i].status \in PersistedStatuses

\* C30: for the array job of a campaign the concurrency limit times the
\* nodes of one simulation never exceeds AVAILABLE_NODES (800), when the
\* job is submitted and after any sequence of SimCampaignThrottle
\* updates.
C30_LimitWithinAvailableNodes ==
    lim.pc = "submitted" => lim.limit * lim.nodes <= AVAILABLE_NODES

====
